---- MODULE Spec2Model ----
(***************************************************************************)
(* Helius-Indexer: the manage-jobs reconciler, the helius-webhook-receiver  *)
(* gateway, the webhook_queue table with lock_and_get_queue_item, and the   *)
(* worker's processQueueItem, as one state machine.                         *)
(*                                                                          *)
(* Strings are sequences of chunks: a chunk is either the whitespace chunk  *)
(* WS or a run of non-whitespace characters ("M1").  The empty sequence is  *)
(* every falsy address at once (undefined, null, ""): the code treats them  *)
(* alike on every path modelled here.                                       *)
(***************************************************************************)
EXTENDS Integers, Sequences, FiniteSets, TLC

\* ------------------------------------------------------------------ bounds
MaxJobs == 2        \* job rows ever inserted (ids are never reused)
NumReq == 2         \* manage-jobs requests in flight at once
MaxQueue == 2       \* webhook_queue rows ever inserted while workers run
NumWorkers == 2     \* worker processes
MaxBatch == 2       \* events in one webhook batch

\* ------------------------------------------------------- program constants
MAX_PROCESSING_ATTEMPTS == 3

\* ------------------------------------------------------------------ strings
WS == " "
Absent == << >>
M1 == <<"M1">>
M1pad == <<WS, "M1", WS>>
M2 == <<"M2">>
Blank == <<WS>>
\* a JSON value that is not a string (a number, an object)
NaS == "#"
NotAString == <<NaS>>
IsString(v) == NaS \notin {v[i] : i \in 1..Len(v)}

Range(s) == {s[i] : i \in 1..Len(s)}

RECURSIVE TrimLeft(_)
TrimLeft(s) == IF s # << >> /\ Head(s) = WS THEN TrimLeft(Tail(s)) ELSE s

RECURSIVE TrimRight(_)
TrimRight(s) ==
    IF s # << >> /\ s[Len(s)] = WS THEN TrimRight(SubSeq(s, 1, Len(s) - 1)) ELSE s

\* String.prototype.trim
Trim(s) == TrimRight(TrimLeft(s))

\* [...new Set(list)]: first occurrences, in order
RECURSIVE DedupFrom(_, _)
DedupFrom(list, acc) ==
    IF list = << >> THEN acc
    ELSE DedupFrom(Tail(list),
                   IF Head(list) \in Range(acc) THEN acc ELSE Append(acc, Head(list)))

Dedup(list) == DedupFrom(list, << >>)

\* ------------------------------------------------------------ indexing_jobs
\* String.prototype.includes for a run of words
Includes(message, words) ==
    \E k \in 1..Len(message) :
        k + Len(words) - 1 <= Len(message) /\ SubSeq(message, k, k + Len(words) - 1) = words

JobIds == 1..MaxJobs
NoJob == 0
CredIds == {"cred1"}
Tables == {"helius_mint_activity", "mint_copy", "bad-table", "tx-type"}
Categories == {"MINT_ACTIVITY", "PROGRAM_INTERACTIONS"}

Params(mint, prog) == [mintAddress |-> mint, programId |-> prog]

\* a slot of the table that holds no row: "none" before the insert, "deleted" after
EmptyRow(st) ==
    [status |-> st, data_category |-> "", category_params |-> Params(Absent, Absent),
     credential_id |-> "", target_table_name |-> "", error_message |-> Absent]

\* the address a job monitors, by category (the switch of every component)
CategoryAddress(cat, params) ==
    CASE cat = "MINT_ACTIVITY" -> params.mintAddress
      [] cat = "PROGRAM_INTERACTIONS" -> params.programId
      [] OTHER -> Absent

Exists(row) == row.status \notin {"none", "deleted"}

VARIABLES
    jobs,           \* indexing_jobs: JobIds -> row
    credentials,    \* db_credentials: credential id -> row
    subscription,   \* the platform webhook's accountAddresses at Helius
    req,            \* manage-jobs requests: 1..NumReq -> pc and locals
    queue,          \* webhook_queue: rows in received_at order, id = index
    rowLock,        \* webhook_queue row locks: id -> holding transaction or 0
    response,       \* the HTTP status the step just taken answered with, or 0
    pushed,         \* the address list the step just taken sent to Helius, if any
    gw,             \* the webhook receiver's request past its directory fetch
    heard,          \* the webhook request the step just taken received, if any
    poll,           \* per worker: its lock_and_get_queue_item call
    rpc,            \* the result the claim call that just returned gave, if any
    returns,        \* history: per queue row, how many claim calls returned it
    task,           \* per queue row: the processQueueItem run on it
    dest,           \* the destination database: table -> rows
    userDbPools,    \* per worker process, its cache: credential id -> pool
    pools,          \* the Pool objects that process has constructed, by the run
    proc            \* that process: its poll timer, its shutdown, its exit

dbVars == <<jobs, queue, rowLock>>
pipeVars == <<gw, poll, returns, task, dest, userDbPools, pools, proc>>
vars == <<jobs, credentials, subscription, req, queue, rowLock, response, pushed,
          gw, heard, poll, rpc, returns, task, dest, userDbPools, pools, proc>>

NoPush == [sent |-> FALSE, list |-> << >>]
Push(list) == [sent |-> TRUE, list |-> list]

\* no webhook request, no claim result
\* directory is the outcome of the fetch of the active jobs the request made
NoRequest == [method |-> "", kind |-> "", events |-> << >>, directory |-> ""]
NoRpc == [called |-> FALSE, max_attempts |-> 0, item |-> 0]
\* processingError is set by the insert of the last batch when it failed
NoBatch == [pc |-> "idle", rows |-> << >>, processingError |-> FALSE]

\* ------------------------------------------------------------ db_credentials
\* crypto.ts.  A cipher text is the sequence of its parts between the dots: the
\* IV, the authentication tag and the encrypted data.  A part is written with its
\* length in bytes, the key it was made with and the text it seals.
IV_LENGTH == 12
AUTH_TAG_LENGTH == 16
ENCRYPTION_KEY == "key"
Part(bytes, k, text) == [bytes |-> bytes, key |-> k, text |-> text]

\* encrypt: iv_hex.authTag_hex.encrypted_base64
Encrypt(plainText, k) ==
    <<Part(IV_LENGTH, "", Absent), Part(AUTH_TAG_LENGTH, k, plainText),
      Part(Len(plainText), k, plainText)>>

DecryptFailed == [ok |-> FALSE, text |-> Absent]

\* decrypt: three parts, an IV of IV_LENGTH bytes, a tag of AUTH_TAG_LENGTH bytes,
\* and a tag that verifies the data under the key; every error is thrown on
Decrypt(cipherText, k) ==
    IF Len(cipherText) # 3 THEN DecryptFailed
    ELSE LET iv == cipherText[1]
             authTag == cipherText[2]
             encrypted == cipherText[3]
         IN IF iv.bytes # IV_LENGTH THEN DecryptFailed
            ELSE IF authTag.bytes # AUTH_TAG_LENGTH THEN DecryptFailed
            ELSE IF authTag.key # k \/ encrypted.key # k \/ authTag.text # encrypted.text
                 THEN DecryptFailed
            ELSE [ok |-> TRUE, text |-> encrypted.text]

\* rows of db_credentials: the password encrypted with the worker's key, with
\* another key, and a cipher text cut after its second part
Password == <<"pw">>
Credential(encrypted_password) == [id |-> "cred1", encrypted_password |-> encrypted_password]
NoCredential == [id |-> "", encrypted_password |-> << >>]
StoredCredential == Credential(Encrypt(Password, ENCRYPTION_KEY))
OtherKeyCredential == Credential(Encrypt(Password, "other"))
CutCredential == Credential(SubSeq(Encrypt(Password, ENCRYPTION_KEY), 1, 2))
CredentialRows == {StoredCredential, OtherKeyCredential, CutCredential}

\* the db_credentials row with this id, if there is one
CredentialRow(id) == IF id \in CredIds THEN credentials[id] ELSE NoCredential

\* --------------------------------------------------------------- manage-jobs
ReqIds == 1..NumReq

\* POST bodies: data_category, category_params, credential_id, target_table_name.
\* Three the validation accepts (a mint, the same mint padded with whitespace, a
\* program id) and three it rejects (whitespace only, the address under the other
\* category's key, an unknown category).
Body(cat, params) ==
    [data_category |-> cat, category_params |-> params,
     credential_id |-> "cred1", target_table_name |-> "helius_mint_activity"]

CreateBodies ==
    {Body("MINT_ACTIVITY", Params(M1, Absent)),
     Body("MINT_ACTIVITY", Params(M1pad, Absent)),
     Body("PROGRAM_INTERACTIONS", Params(Absent, M2)),
     Body("MINT_ACTIVITY", Params(Blank, Absent)),
     Body("MINT_ACTIVITY", Params(Absent, M1)),
     Body("OTHER", Params(M1, Absent)),
     Body("MINT_ACTIVITY", Params(NotAString, Absent))}

NoBody ==
    [data_category |-> "", category_params |-> Params(Absent, Absent),
     credential_id |-> "", target_table_name |-> ""]

\* a request slot: pc, the job a DELETE names, the POST body, newJobAddress or
\* deletedJobAddress, currentActiveAddresses or remainingActiveAddresses, whether
\* the request's last edit call went through, and the response status; before is
\* the subscription's list as it was when a POST arrived
IdleReq ==
    [pc |-> "idle", kind |-> "", job |-> NoJob, body |-> NoBody,
     addr |-> Absent, cur |-> << >>, edit |-> "none", before |-> << >>]

Free(r) == req[r].pc = "idle"

\* a new request takes the lowest free slot (slots are interchangeable)
Opens(r) == Free(r) /\ \A o \in ReqIds : o < r => ~Free(o)

\* the request ends with an HTTP response
Answer(r, code) ==
    /\ req' = [req EXCEPT ![r] = IdleReq]
    /\ response' = code
    /\ heard' = NoRequest /\ rpc' = NoRpc
    /\ UNCHANGED <<credentials, pipeVars>>

\* the request goes on to its next await
Goes(r, next) ==
    /\ req' = [req EXCEPT ![r] = next]
    /\ response' = 0
    /\ heard' = NoRequest /\ rpc' = NoRpc
    /\ UNCHANGED <<credentials, pipeVars>>

\* getAllActiveAddresses: the unique trimmed addresses of the active jobs, the job
\* excludeJobId left out; rows are visited in id order
RECURSIVE ActiveAddressesFrom(_, _, _, _)
ActiveAddressesFrom(js, excludeJobId, j, acc) ==
    IF j > MaxJobs THEN acc
    ELSE LET job == js[j]
             address == CategoryAddress(job.data_category, job.category_params)
             selected == job.status = "active" /\ j # excludeJobId
         IN ActiveAddressesFrom(js, excludeJobId, j + 1,
                IF /\ selected
                   /\ address # Absent /\ IsString(address) /\ Trim(address) # Absent
                   /\ Trim(address) \notin Range(acc)
                THEN Append(acc, Trim(address)) ELSE acc)

\* a variant that leaves out every job sharing the excluded job's address
GetAllActiveAddressesByAddress(js, excludeJobId) ==
    LET gone == IF excludeJobId \in JobIds
                THEN {j \in JobIds :
                        Trim(CategoryAddress(js[j].data_category, js[j].category_params))
                        = Trim(CategoryAddress(js[excludeJobId].data_category,
                                               js[excludeJobId].category_params))}
                ELSE {}
    IN ActiveAddressesFrom([j \in JobIds |-> IF j \in gone THEN EmptyRow("none") ELSE js[j]],
                           excludeJobId, 1, << >>)

GetAllActiveAddresses(js, excludeJobId) == ActiveAddressesFrom(js, excludeJobId, 1, << >>)

\* Error messages are sequences of words.
NoError == << >>

\* what editPlatformWebhook throws before it sends anything: HELIUS_API_KEY or
\* PLATFORM_HELIUS_WEBHOOK_ID is not set, WEBHOOK_RECEIVER_URL_BASE is not set
MsgConfigMissing == <<"Platform ", "Helius config", " missing">>
MsgNoReceiverUrl == <<"Webhook receiver URL is not configured.">>
ConfigErrors == {MsgConfigMissing, MsgNoReceiverUrl}

\* what it throws when the PUT is not answered ok: the body's error text if the
\* body is JSON with one, 'Helius API edit request failed with status ...' if it
\* is JSON without; a body that is not JSON makes response.text() throw, and a
\* fetch that rejects throws its own error
MsgHeliusStatus == <<"Helius API", " edit request failed with status ">>
MsgBodyError == <<"invalid api key provided">>
MsgBodyUnusable == <<"Body is unusable">>
MsgFetchFailed == <<"fetch failed">>
HeliusErrors == {MsgHeliusStatus, MsgBodyError, MsgBodyUnusable, MsgFetchFailed}

\* the outer catch: the status is chosen by what the message holds
ErrorStatus(errorMessage) ==
    IF Includes(errorMessage, <<"Database error">>)
       \/ Includes(errorMessage, <<"constraint">>) THEN 500
    ELSE IF Includes(errorMessage, <<"Helius API">>)
            \/ Includes(errorMessage, <<"Helius config">>) THEN 502
    ELSE IF Includes(errorMessage, <<"Invalid JSON payload">>) THEN 400
    ELSE IF Includes(errorMessage, <<"credential ID">>) THEN 403
    ELSE 500

\* editPlatformWebhook's payload.accountAddresses
EditPayload(accountAddresses) == Dedup(accountAddresses)

\* the PUT to Helius replaces the subscription's list with the payload's
Helius(accountAddresses) ==
    subscription' = accountAddresses /\ pushed' = Push(accountAddresses)

\* the PUT is not answered ok: the subscription stays as it is
HeliusFails == subscription' = subscription /\ pushed' = NoPush

\* a variant that sends the new address alone
UpdatedAddressListOnlyNew(currentActiveAddresses, newJobAddress) == <<newJobAddress>>

\* POST step 4: new Set(currentActiveAddresses).add(newJobAddress)
UpdatedAddressList(currentActiveAddresses, newJobAddress) ==
    Dedup(Append(currentActiveAddresses, newJobAddress))

\* a variant that tests the address before trimming it
ValidNewJobUntrimmed(body) ==
    /\ body.data_category \in Categories
    /\ CategoryAddress(body.data_category, body.category_params) # Absent
    /\ IsString(CategoryAddress(body.data_category, body.category_params))

\* POST step 2: the body's address is a non-empty string after trimming
ValidNewJob(body) ==
    /\ body.data_category \in Categories
    /\ CategoryAddress(body.data_category, body.category_params) # Absent
    /\ IsString(CategoryAddress(body.data_category, body.category_params))
    /\ Trim(CategoryAddress(body.data_category, body.category_params)) # Absent

\* a variant that never finds the address needed
AddressNeverNeeded(deletedJobAddress, remainingActiveAddresses) == FALSE

\* DELETE step 4
IsAddressStillNeeded(deletedJobAddress, remainingActiveAddresses) ==
    IF deletedJobAddress # Absent
    THEN deletedJobAddress \in Range(remainingActiveAddresses)
    ELSE FALSE

JobsEver == Cardinality({j \in JobIds : jobs[j].status # "none"})
CreatesInFlight ==
    Cardinality({r \in ReqIds : req[r].kind = "create" /\ ~Free(r)})
FreshJobId == CHOOSE j \in JobIds : jobs[j].status = "none" /\
                  \A k \in JobIds : jobs[k].status = "none" => j <= k

\* POST steps 1-2: validation and the credential ownership check (credCheck is
\* the outcome of the db_credentials query)
CreateStart(r, body, credCheck) ==
    /\ Opens(r)
    /\ credCheck = "ok" => CredentialRow(body.credential_id) # NoCredential
    /\ JobsEver + CreatesInFlight < MaxJobs
    /\ IF credCheck = "error" THEN Answer(r, 500)
       ELSE IF credCheck = "none" THEN Answer(r, 403)
       ELSE IF ~ValidNewJob(body) THEN Answer(r, 400)
       ELSE Goes(r, [IdleReq EXCEPT !.pc = "c_read", !.kind = "create", !.body = body,
                  !.addr = Trim(CategoryAddress(body.data_category, body.category_params)),
                  !.before = subscription])
    /\ pushed' = NoPush
    /\ UNCHANGED <<subscription, dbVars>>

\* POST steps 3-5 up to the PUT: getAllActiveAddresses() returns, and
\* editPlatformWebhook runs up to its fetch; config is what it throws before that,
\* if anything, and the outer catch answers it
CreateRead(r, dbOk, config) ==
    /\ req[r].pc = "c_read"
    /\ IF ~dbOk
       THEN Answer(r, ErrorStatus(<<"Could not fetch active job configurations: ">>))
       ELSE IF config # NoError THEN Answer(r, ErrorStatus(config))
       ELSE Goes(r, [req[r] EXCEPT !.pc = "c_edit",
                                   !.cur = GetAllActiveAddresses(jobs, NoJob)])
    /\ pushed' = NoPush
    /\ UNCHANGED <<subscription, dbVars>>

\* a variant that only logs a failed edit, as the delete flow does
CreateEditLogged(heliusOk) == FALSE

\* editPlatformWebhook throws when the PUT is not answered ok, and the create flow
\* has no catch around its call
CreateEditThrows(heliusOk) == ~heliusOk

\* POST step 5: the PUT of editPlatformWebhook(updatedAddressList) returns; error
\* is what editPlatformWebhook throws then, if anything, and the outer catch
\* answers it with the status its message selects
CreateEdit(r, error) ==
    /\ req[r].pc = "c_edit"
    /\ LET heliusOk == error = NoError
       IN /\ IF heliusOk
             THEN Helius(EditPayload(UpdatedAddressList(req[r].cur, req[r].addr)))
             ELSE HeliusFails
          /\ IF CreateEditThrows(heliusOk)
             THEN Answer(r, ErrorStatus(error))
             ELSE Goes(r, [req[r] EXCEPT !.pc = "c_insert",
                                         !.edit = IF heliusOk THEN "ok" ELSE "failed"])
    /\ UNCHANGED dbVars

\* POST step 6: insert into indexing_jobs; on error go on to the rollback
CreateInsert(r, dbOk) ==
    /\ req[r].pc = "c_insert"
    /\ dbOk => CredentialRow(req[r].body.credential_id) # NoCredential
    /\ IF dbOk
       THEN /\ jobs' = [jobs EXCEPT ![FreshJobId] =
                   [status |-> "active",
                    data_category |-> req[r].body.data_category,
                    category_params |-> req[r].body.category_params,
                    credential_id |-> req[r].body.credential_id,
                    target_table_name |-> req[r].body.target_table_name,
                    error_message |-> Absent]]
            /\ Answer(r, 201)
       ELSE /\ jobs' = jobs
            /\ Goes(r, [req[r] EXCEPT !.pc = "c_rollback"])
    /\ pushed' = NoPush
    /\ UNCHANGED <<subscription, queue, rowLock>>

\* a variant that sends the list of the first edit once more
RollbackAddressesUpdated(currentActiveAddresses, updatedAddressList) == updatedAddressList

\* the rollback's argument: "Revert to previous address list"
RollbackAddresses(currentActiveAddresses, updatedAddressList) == currentActiveAddresses

\* POST rollback: editPlatformWebhook(currentActiveAddresses), errors only logged;
\* then throw 'Failed to save job to database: ...', which the outer catch answers 500
CreateRollback(r, heliusOk) ==
    /\ req[r].pc = "c_rollback"
    /\ IF heliusOk
       THEN Helius(EditPayload(RollbackAddresses(req[r].cur,
                                   UpdatedAddressList(req[r].cur, req[r].addr))))
       ELSE HeliusFails
    /\ Answer(r, 500)
    /\ UNCHANGED dbVars

\* DELETE steps 1-2: fetch the job, check the owner, derive its address
\* (deletedJobAddress?.trim() throws on a stored value that is not a string)
DeleteStart(r, resourceId, dbOk, owner) ==
    /\ Opens(r)
    /\ IF ~dbOk THEN Answer(r, 500)
       ELSE IF ~Exists(jobs[resourceId]) THEN Answer(r, 404)
       ELSE IF ~owner THEN Answer(r, 403)
       ELSE IF ~IsString(CategoryAddress(jobs[resourceId].data_category,
                                         jobs[resourceId].category_params))
            THEN Answer(r, ErrorStatus(<<"deletedJobAddress?.trim is not a function">>))
       ELSE Goes(r, [IdleReq EXCEPT !.pc = "d_read", !.kind = "delete", !.job = resourceId,
                  !.addr = Trim(CategoryAddress(jobs[resourceId].data_category,
                                                jobs[resourceId].category_params))])
    /\ pushed' = NoPush
    /\ UNCHANGED <<subscription, dbVars>>

\* DELETE steps 3-4 up to the PUT: getAllActiveAddresses(resourceId) returns, the
\* edit is decided on, and editPlatformWebhook runs up to its fetch; what it
\* throws before that (config) is logged and the row delete is sent
DeleteRead(r, dbOk, config) ==
    /\ req[r].pc = "d_read"
    /\ IF ~dbOk
       THEN Answer(r, ErrorStatus(<<"Could not fetch active job configurations: ">>))
       ELSE LET remaining == GetAllActiveAddresses(jobs, req[r].job)
                edits == req[r].addr # Absent
                            /\ ~IsAddressStillNeeded(req[r].addr, remaining)
            IN Goes(r, [req[r] EXCEPT
                   !.cur = remaining,
                   !.edit = IF edits /\ config # NoError THEN "failed" ELSE @,
                   !.pc = IF edits /\ config = NoError THEN "d_edit" ELSE "d_row"])
    /\ pushed' = NoPush
    /\ UNCHANGED <<subscription, dbVars>>

\* DELETE step 4: editPlatformWebhook(remainingActiveAddresses), errors only logged
DeleteEdit(r, heliusOk) ==
    /\ req[r].pc = "d_edit"
    /\ IF heliusOk THEN Helius(EditPayload(req[r].cur)) ELSE HeliusFails
    /\ Goes(r, [req[r] EXCEPT !.pc = "d_row",
                               !.edit = IF heliusOk THEN "ok" ELSE "failed"])
    /\ UNCHANGED dbVars

\* webhook_queue.job_id REFERENCES indexing_jobs(id) ON DELETE CASCADE
CascadeQueue(q, j) ==
    [i \in 1..Len(q) |-> IF q[i].job_id = j THEN [q[i] EXCEPT !.present = FALSE] ELSE q[i]]

\* a row lock held on a queue row of job j makes the cascading delete wait
JobRowsLocked(j) == \E i \in 1..Len(queue) : queue[i].job_id = j /\ rowLock[i] # 0

\* DELETE step 5: delete from indexing_jobs where id = resourceId
DeleteRow(r, dbOk) ==
    /\ req[r].pc = "d_row"
    /\ IF dbOk
       THEN /\ ~JobRowsLocked(req[r].job)
            /\ jobs' = [jobs EXCEPT ![req[r].job] =
                   IF Exists(@) THEN EmptyRow("deleted") ELSE @]
            /\ queue' = CascadeQueue(queue, req[r].job)
            /\ Answer(r, 204)
       ELSE /\ UNCHANGED <<jobs, queue>>
            /\ Answer(r, 500)
    /\ pushed' = NoPush
    /\ UNCHANGED <<subscription, rowLock>>

\* the worker's update of indexing_jobs: update({ status: 'error', error_message })
\* where id = job_id
SetJobError(js, j, error_message) ==
    [js EXCEPT ![j] = IF Exists(@)
                      THEN [@ EXCEPT !.status = "error", !.error_message = error_message]
                      ELSE @]

\* the messages of the errors the worker meets
MsgTimeout == <<"connection", "timeout">>
MsgNoRelation(table) == <<"relation", table, "does not exist">>
MsgColumn == <<"column", "slot", "does not exist">>
MsgType == <<"invalid input syntax for ", "type", " integer">>
MsgDecrypt == <<"Password decryption failed">>
MsgTestFailed(errorMsg) == <<"Failed to connect to user DB: ">> \o errorMsg

\* errorMessage = `Target table error: ${errorMessage.substring(0, 250)}`
TargetTableError(errorMessage) == <<"Target table error: ">> \o errorMessage

\* error_message: `Credential missing: ${jobData.credential_id}`
CredentialMissingError(credential_id) == <<"Credential missing:", credential_id>>

\* the messages the worker's updates of job j carry
JobErrors(j) ==
    {CredentialMissingError(jobs[j].credential_id), TargetTableError(MsgColumn),
     TargetTableError(MsgNoRelation(jobs[j].target_table_name))}

\* the reconciler's view of the worker: an update of a job's status that a run
\* of processQueueItem has started lands while requests run
WorkerFlagsJob(j, error_message) ==
    /\ Exists(jobs[j])
    /\ jobs' = SetJobError(jobs, j, error_message)
    /\ jobs' # jobs
    /\ response' = 0
    /\ pushed' = NoPush
    /\ heard' = NoRequest /\ rpc' = NoRpc
    /\ UNCHANGED <<subscription, req, credentials, queue, rowLock, pipeVars>>

\* ------------------------------------------------------------ webhook_queue
\* A row keeps its place in the sequence when a cascade deletes it (present is
\* FALSE from then on), so that id = index holds for ever.  The column
\* last_attempt is "NULL" until a statement stamps it ("NOW"); error_message is
\* not modelled.
QueueIds == 1..MaxQueue
WorkerIds == 1..NumWorkers

\* a reference to a pg Pool: the password the pool was constructed with and
\* which of the process's Pool objects it is
NoPool == [made |-> FALSE, password |-> Absent, id |-> 0]
NewPool(id, password) == [made |-> TRUE, password |-> password, id |-> id]

\* a Pool object: the credential it was constructed for, whether its test
\* connection went through, and whether pool.end() was called on it
PoolObject(credential_id) ==
    [credential |-> credential_id, tested |-> FALSE, ended |-> FALSE]

\* each run of processQueueItem constructs at most one Pool: the heap holds, for
\* queue row i, the Pool the run on row i has constructed, if any
NoPoolObject == PoolObject("")
NoPools == [i \in QueueIds |-> NoPoolObject]

\* the worker process after startup, before any signal: the first call of
\* pollQueue is due (ticks), no claim call is in flight (calls), the handler of
\* SIGTERM has not run (signalled; closing and closed are the pools it has called
\* end() on and those whose end() has resolved; grace its timer)
Running ==
    [signalled |-> FALSE, awaited |-> {}, exited |-> FALSE, code |-> 0, isRunning |-> FALSE,
     ticks |-> 1, calls |-> 0, closing |-> {}, closed |-> {}, grace |-> FALSE]

\* a PoolClient: the pool it was taken from (by its place in the heap), whether
\* it is checked out, and how often release() was called on it; NoClient is null
NoClient == [open |-> FALSE, password |-> Absent, pool |-> 0, released |-> 0]
Client(pool) ==
    [open |-> TRUE, password |-> pool.password, pool |-> pool.id, released |-> 0]

\* finally: if (userDbClient) userDbClient.release()
Release(userDbClient) ==
    IF userDbClient = NoClient THEN NoClient
    ELSE [userDbClient EXCEPT !.open = FALSE, !.released = @ + 1]

\* processQueueItem's locals: updateStatus, jobData, errorMessage, the branch it
\* left the try block by (why), whether its INSERT was executed (wrote), and the
\* state and the message of its asynchronous update of the job's status (flag,
\* jobError); pool and userDbClient are the pool getUserDbPool is working on or
\* has returned and the client in use
\* worker is the process the run is in; client and errorMsg are getUserDbPool's
\* test client and the message its catch block holds while it awaits pool.end();
\* reflag is the message of a second update of the job, started while the
\* first was on its way
NoTask ==
    [pc |-> "none", worker |-> 0, updateStatus |-> "failed", why |-> "",
     jobData |-> EmptyRow("none"), errorMessage |-> Absent,
     flag |-> "none", jobError |-> Absent, reflag |-> Absent, wrote |-> FALSE,
     pool |-> NoPool, client |-> NoClient, errorMsg |-> Absent,
     userDbClient |-> NoClient]

\* const userDbPools = new Map(): each worker process has its own
NoCache == [c \in CredIds |-> NoPool]

EmptyPipe ==
    /\ queue = << >>
    /\ rowLock = [i \in QueueIds |-> 0]
    /\ gw = NoBatch
    /\ heard = NoRequest
    /\ poll = [w \in WorkerIds |-> [pc |-> "idle", item |-> 0, max_attempts |-> 0]]
    /\ rpc = NoRpc
    /\ returns = [i \in QueueIds |-> 0]
    /\ task = [i \in QueueIds |-> NoTask]
    /\ dest = [t \in Tables |-> << >>]
    /\ userDbPools = [w \in WorkerIds |-> NoCache]
    /\ pools = NoPools
    /\ proc = Running

\* manage-credentials, DELETE /{id}:
\* delete({ count: 'exact' }).eq('id', resourceId).eq('user_id', user.id).
\* Without an id the answer is 400.  dbOk = FALSE: the delete fails and the catch
\* answers 500.  owner = FALSE: the row is another user's; like a row that is not
\* there it counts 0 and is answered 404.  Else the row goes and with it, in the
\* same statement (ON DELETE CASCADE), every job on the credential and every
\* queue row of those jobs; the statement waits for a row a claim has locked.
\* Nothing is sent to Helius.  The answer is 204.
DeleteCredential(resourceId, dbOk, owner) ==
    LET found == resourceId \in CredIds /\ credentials[resourceId] # NoCredential
        gone == {j \in JobIds : Exists(jobs[j]) /\ jobs[j].credential_id = resourceId}
    IN /\ IF resourceId = "" THEN response' = 400 /\ UNCHANGED <<jobs, credentials, queue>>
          ELSE IF ~dbOk THEN response' = 500 /\ UNCHANGED <<jobs, credentials, queue>>
          ELSE IF ~(found /\ owner)
          THEN response' = 404 /\ UNCHANGED <<jobs, credentials, queue>>
          ELSE /\ \A j \in gone : ~JobRowsLocked(j)
               /\ credentials' = [credentials EXCEPT ![resourceId] = NoCredential]
               /\ jobs' = [j \in JobIds |->
                              IF j \in gone THEN EmptyRow("deleted") ELSE jobs[j]]
               /\ queue' = [i \in 1..Len(queue) |->
                               IF queue[i].job_id \in gone
                               THEN [queue[i] EXCEPT !.present = FALSE]
                               ELSE queue[i]]
               /\ response' = 204
       /\ pushed' = NoPush /\ heard' = NoRequest /\ rpc' = NoRpc
       /\ UNCHANGED <<subscription, req, rowLock, pipeVars>>

\* the credential the requests name is stored
StoredCredentials == [c \in CredIds |-> StoredCredential]

InitRecon ==
    /\ jobs = [j \in JobIds |-> EmptyRow("none")]
    /\ credentials = StoredCredentials
    /\ subscription = << >>
    /\ req = [r \in ReqIds |-> IdleReq]
    /\ queue = << >>
    /\ response = 0
    /\ pushed = NoPush
    /\ EmptyPipe

ReconStep(r) ==
    \/ \E body \in CreateBodies, credCheck \in {"ok", "none", "error"} :
           CreateStart(r, body, credCheck)
    \/ \E dbOk \in BOOLEAN, config \in {NoError} \cup ConfigErrors :
           CreateRead(r, dbOk, config)
    \/ \E error \in {NoError} \cup HeliusErrors : CreateEdit(r, error)
    \/ \E dbOk \in BOOLEAN : CreateInsert(r, dbOk)
    \/ \E heliusOk \in BOOLEAN : CreateRollback(r, heliusOk)
    \/ \E resourceId \in JobIds, dbOk \in BOOLEAN, owner \in BOOLEAN :
           DeleteStart(r, resourceId, dbOk, owner)
    \/ \E dbOk \in BOOLEAN, config \in {NoError} \cup ConfigErrors :
           DeleteRead(r, dbOk, config)
    \/ \E heliusOk \in BOOLEAN : DeleteEdit(r, heliusOk)
    \/ \E dbOk \in BOOLEAN : DeleteRow(r, dbOk)

\* requests of any number of callers, interleaved at every await
NextRecon ==
    \/ \E r \in ReqIds : ReconStep(r)
    \/ \E j \in JobIds : \E error_message \in JobErrors(j) : WorkerFlagsJob(j, error_message)
    \/ \E resourceId \in CredIds \cup {""}, dbOk \in BOOLEAN, owner \in BOOLEAN :
           DeleteCredential(resourceId, dbOk, owner)

SpecRecon == InitRecon /\ [][NextRecon]_vars

\* one request at a time, each run to completion before anything else happens
Quiet == \A r \in ReqIds : Free(r)

NextSerial ==
    \/ \E r \in ReqIds : (\A o \in ReqIds \ {r} : Free(o)) /\ ReconStep(r)
    \/ \E j \in JobIds : \E error_message \in JobErrors(j) :
           Quiet /\ WorkerFlagsJob(j, error_message)
    \/ \E resourceId \in CredIds, dbOk \in BOOLEAN, owner \in BOOLEAN :
           Quiet /\ DeleteCredential(resourceId, dbOk, owner)

SpecSerial == InitRecon /\ [][NextSerial]_vars

\* ------------------------------------------------------------ Helius payloads
\* An enhanced-transaction event, cut down to the fields the code reads.  A
\* missing field is the empty sequence (a list, an address), "" (signature,
\* source) or 0 (timestamp): each is falsy in the code.
W1 == <<"W1">>
W2 == <<"W2">>

Transfer(from, to, mint) == [fromUserAccount |-> from, toUserAccount |-> to, mint |-> mint]
NoNft == [present |-> FALSE, buyer |-> Absent, seller |-> Absent, nfts |-> << >>]
Nft(buyer, seller, mints) == [present |-> TRUE, buyer |-> buyer, seller |-> seller, nfts |-> mints]
\* an entry of transaction.message.accountKeys: a string or an object with pubkey
KeyString(a) == [isString |-> TRUE, pubkey |-> a]
KeyObject(a) == [isString |-> FALSE, pubkey |-> a]

EmptyEvent ==
    [signature |-> "", timestamp |-> 0, tokenTransfers |-> << >>,
     nativeTransfers |-> << >>, nft |-> NoNft, accountKeys |-> << >>,
     accountData |-> << >>, source |-> "", account |-> Absent]

\* a token transfer of mint M1
EvToken ==
    [EmptyEvent EXCEPT !.signature = "s1", !.timestamp = 1,
                       !.tokenTransfers = <<Transfer(W1, W2, M1)>>]
\* a redelivery-like second event of the same transaction: M1 among the account
\* keys and in the account data
EvKeys ==
    [EmptyEvent EXCEPT !.signature = "s1", !.timestamp = 1,
                       !.accountKeys = <<KeyString(W1), KeyObject(M1)>>,
                       !.accountData = <<M1, Absent>>]
\* a native transfer to the address M1: a match on accounts only
EvNative ==
    [EmptyEvent EXCEPT !.signature = "s2", !.timestamp = 1,
                       !.nativeTransfers = <<Transfer(W1, M1, Absent)>>]
\* an NFT sale of mint M1 bought by M2, with no timestamp
EvNft ==
    [EmptyEvent EXCEPT !.signature = "s3", !.nft = Nft(M2, W2, <<M1>>)]
\* an event of a rule-based source naming the account M2
EvRule == [EmptyEvent EXCEPT !.source = "PROGRAM_RULE", !.account = M2]
\* the same account outside a rule-based source: nothing to extract
EvNoRule == [EmptyEvent EXCEPT !.signature = "s2", !.account = M2]

Events == {EvToken, EvKeys, EvNative, EvNft, EvRule, EvNoRule}

\* accounts.add for each truthy value, in the order the code visits them
Truthy(list) == SelectSeq(list, LAMBDA a : a # Absent)

RECURSIVE Flatten(_)
Flatten(lists) == IF lists = << >> THEN << >> ELSE Head(lists) \o Flatten(Tail(lists))

\* getAccountsFromPayload
GetAccountsFromPayload(payload) ==
    LET token == Flatten([i \in 1..Len(payload.tokenTransfers) |->
                     LET t == payload.tokenTransfers[i]
                     IN <<t.fromUserAccount, t.toUserAccount, t.mint>>])
        native == Flatten([i \in 1..Len(payload.nativeTransfers) |->
                     LET t == payload.nativeTransfers[i]
                     IN <<t.fromUserAccount, t.toUserAccount>>])
        nft == IF payload.nft.present
               THEN <<payload.nft.buyer, payload.nft.seller>> \o payload.nft.nfts
               ELSE << >>
        keys == [i \in 1..Len(payload.accountKeys) |-> payload.accountKeys[i].pubkey]
        rule == IF payload.source = "PROGRAM_RULE" THEN <<payload.account>> ELSE << >>
    IN Dedup(Truthy(token \o native \o nft \o keys \o payload.accountData \o rule))

\* ----------------------------------------------------- helius-webhook-receiver
\* Request bodies: nothing, text that is not JSON, and JSON that is an object, null,
\* a string or an array of events.
BodyKinds == {"empty", "malformed", "object", "null", "string", "array"}
Request(method, kind, events) ==
    [method |-> method, kind |-> kind, events |-> events, directory |-> ""]

\* what JSON.parse leaves in payloads: the stub catch block keeps the initial []
\* for a body that does not parse
ParsedPayloads(rq) ==
    IF rq.kind \in {"empty", "malformed"} THEN [iterable |-> TRUE, hasLength |-> TRUE, items |-> << >>]
    ELSE IF rq.kind = "array" THEN [iterable |-> TRUE, hasLength |-> TRUE, items |-> rq.events]
    ELSE IF rq.kind = "string" THEN [iterable |-> TRUE, hasLength |-> TRUE, items |-> << >>]
    ELSE IF rq.kind = "object" THEN [iterable |-> FALSE, hasLength |-> TRUE, items |-> << >>]
    ELSE [iterable |-> FALSE, hasLength |-> FALSE, items |-> << >>]

\* the address the receiver matches a job by: the stored parameter as it is
JobMonitoredAddress(job) == CategoryAddress(job.data_category, job.category_params)

\* the receiver's inner loop: one row per active job whose address is among the
\* event's accounts, jobs visited in id order
RECURSIVE MatchJobs(_, _, _, _)
MatchJobs(js, eventPayload, j, acc) ==
    IF j > MaxJobs THEN acc
    ELSE LET jobMonitoredAddress == JobMonitoredAddress(js[j])
             matches == /\ js[j].status = "active"
                        /\ jobMonitoredAddress # Absent
                        /\ jobMonitoredAddress \in Range(GetAccountsFromPayload(eventPayload))
         IN MatchJobs(js, eventPayload, j + 1,
                IF matches
                THEN Append(acc, [job_id |-> j, payload |-> eventPayload,
                                  status |-> "pending", processing_attempts |-> 0])
                ELSE acc)

\* the receiver's outer loop over the batch: allQueueInserts
RECURSIVE AllQueueInserts(_, _)
AllQueueInserts(js, payloads) ==
    IF payloads = << >> THEN << >>
    ELSE MatchJobs(js, Head(payloads), 1, << >>) \o AllQueueInserts(js, Tail(payloads))

\* a step of the pipeline: no manage-jobs request moves, nothing is sent to
\* Helius, no credential is touched
PipeStep == pushed' = NoPush /\ UNCHANGED <<subscription, req, credentials>>

\* the receiver answers without touching the queue
GatewayAnswers(code) == response' = code /\ gw' = NoBatch

\* serve, up to the insert: parse the body, fetch the active jobs, match.  dbOk is
\* the outcome of the directory fetch.  A batch is received only while the queue
\* has room for its rows.
GatewayReceive(rq, dbOk) ==
    /\ gw.pc = "idle"
    /\ heard' = [rq EXCEPT !.directory =
                    IF rq.method = "OPTIONS" \/ ~ParsedPayloads(rq).hasLength THEN "skipped"
                    ELSE IF dbOk THEN "fetched" ELSE "failed"]
    /\ LET payloads == ParsedPayloads(rq)
           allQueueInserts == AllQueueInserts(jobs, payloads.items)
       IN IF rq.method = "OPTIONS" THEN GatewayAnswers(200)
          ELSE IF ~payloads.hasLength THEN GatewayAnswers(500)
          ELSE IF ~dbOk THEN GatewayAnswers(500)
          ELSE IF \A j \in JobIds : jobs[j].status # "active" THEN GatewayAnswers(200)
          ELSE IF ~payloads.iterable THEN GatewayAnswers(500)
          ELSE IF allQueueInserts = << >> THEN GatewayAnswers(200)
          ELSE /\ Len(queue) + Len(allQueueInserts) <= MaxQueue
               /\ gw' = [pc |-> "insert", rows |-> allQueueInserts,
                         processingError |-> FALSE]
               /\ response' = 0
    /\ rpc' = NoRpc
    /\ PipeStep
    /\ UNCHANGED <<dbVars, poll, returns, task, dest, userDbPools, pools, proc>>

\* the rows of one insert statement get one received_at (DEFAULT NOW())
Stored(rows, now) ==
    [i \in 1..Len(rows) |->
        [job_id |-> rows[i].job_id, payload |-> rows[i].payload,
         status |-> rows[i].status, processing_attempts |-> rows[i].processing_attempts,
         received_at |-> now, last_attempt |-> "NULL", present |-> TRUE]]

\* webhook_queue.job_id REFERENCES indexing_jobs(id): a row for a job that is gone
\* fails the whole statement
ForeignKeysHold(js, rows) == \A i \in 1..Len(rows) : Exists(js[rows[i].job_id])

\* a variant that stores row by row: the rows whose job exists are kept when
\* another row of the batch fails
BatchInsertRowByRow(q, js, rows, dbOk) ==
    LET kept == SelectSeq(rows, LAMBDA row : dbOk /\ Exists(js[row.job_id]))
    IN [queue |-> q \o Stored(kept, Len(q) + 1), insertError |-> kept # rows]

\* .from('webhook_queue').insert(allQueueInserts): one statement, all rows or none
BatchInsert(q, js, rows, dbOk) ==
    IF dbOk /\ ForeignKeysHold(js, rows)
    THEN [queue |-> q \o Stored(rows, Len(q) + 1), insertError |-> FALSE]
    ELSE [queue |-> q, insertError |-> TRUE]

\* serve, the batch insert and the final response: 200 whether or not it failed,
\* the failure only recorded in processingError
GatewayInsert(dbOk) ==
    /\ gw.pc = "insert"
    /\ LET done == BatchInsert(queue, jobs, gw.rows, dbOk)
       IN /\ queue' = done.queue
          /\ gw' = [NoBatch EXCEPT !.processingError = done.insertError]
          /\ response' = 200
    /\ heard' = NoRequest /\ rpc' = NoRpc
    /\ PipeStep
    /\ UNCHANGED <<jobs, rowLock, poll, returns, task, dest, userDbPools, pools, proc>>

\* ---------------------------------------------------- lock_and_get_queue_item
\* a variant that also takes rows whose counter equals max_attempts
EligibleUpTo(row, max_attempts) ==
    row.present /\ row.status = "pending" /\ row.processing_attempts <= max_attempts

\* WHERE status = 'pending' AND processing_attempts < max_attempts
Eligible(row, max_attempts) ==
    row.present /\ row.status = "pending" /\ row.processing_attempts < max_attempts

\* a variant that takes rows another transaction has locked
TakesLocked(locks, i) == TRUE

\* FOR UPDATE SKIP LOCKED
SkipLocked(locks, i) == locks[i] = 0

\* a variant without the ORDER BY: any eligible row that is not locked
Unordered(q, locks, max_attempts) ==
    {i \in 1..Len(q) : Eligible(q[i], max_attempts) /\ SkipLocked(locks, i)}

\* the rows the SELECT may lock: eligible, not locked, none of those older
Oldest(q, locks, max_attempts) ==
    LET free == {i \in 1..Len(q) : Eligible(q[i], max_attempts) /\ SkipLocked(locks, i)}
    IN {i \in free : \A k \in free : q[i].received_at <= q[k].received_at}

\* the arguments callers pass: the worker's, and one that admits no row
MaxAttemptsArgs == {0, MAX_PROCESSING_ATTEMPTS}

\* the function is called; its SELECT locks a row or finds none and returns
LockAndGetSelect(w, max_attempts) ==
    /\ poll[w].pc = "idle"
    /\ IF Oldest(queue, rowLock, max_attempts) = {}
       THEN /\ rpc' = [called |-> TRUE, max_attempts |-> max_attempts, item |-> 0]
            /\ UNCHANGED <<rowLock, poll>>
       ELSE \E i \in Oldest(queue, rowLock, max_attempts) :
            /\ rowLock' = [rowLock EXCEPT ![i] = w]
            /\ poll' = [poll EXCEPT ![w] = [pc |-> "locked", item |-> i,
                                            max_attempts |-> max_attempts]]
            /\ rpc' = NoRpc
    /\ response' = 0 /\ heard' = NoRequest
    /\ PipeStep
    /\ UNCHANGED <<jobs, queue, gw, returns, task, dest, userDbPools, pools>>

\* pollQueue calls the function, one call at a time in a worker
ClaimSelect(w, max_attempts) == LockAndGetSelect(w, max_attempts) /\ UNCHANGED proc

\* a variant of the UPDATE that does not count the attempt
ClaimedRowUncounted(row) ==
    [row EXCEPT !.status = "processing", !.last_attempt = "NOW"]

\* SET status = 'processing', processing_attempts = processing_attempts + 1,
\* last_attempt = NOW()
ClaimedRow(row) ==
    [row EXCEPT !.status = "processing", !.processing_attempts = @ + 1,
                !.last_attempt = "NOW"]

\* processQueueItem(item) begins in the process of worker w
StartedTask(w) == [NoTask EXCEPT !.pc = "fetch_job", !.worker = w]

\* the process of worker w has exited (the process followed is that of worker 1)
Exited(w) == w = 1 /\ proc.exited

\* the function's UPDATE ... RETURNING and its commit; pollQueue starts
\* processQueueItem on the row returned, if its process is still there.
\* ok = FALSE: the call fails, nothing is changed or returned.
LockAndGetUpdate(w, ok) ==
    /\ poll[w].pc = "locked"
    /\ LET i == poll[w].item
       IN /\ rowLock' = [rowLock EXCEPT ![i] = 0]
          /\ IF ok
             THEN /\ queue' = [queue EXCEPT ![i] = ClaimedRow(@)]
                  /\ rpc' = [called |-> TRUE, max_attempts |-> poll[w].max_attempts,
                             item |-> i]
                  /\ returns' = [returns EXCEPT ![i] = @ + 1]
                  /\ task' = IF Exited(w) THEN task
                             ELSE [task EXCEPT ![i] = StartedTask(w)]
             ELSE /\ rpc' = NoRpc
                  /\ UNCHANGED <<queue, returns, task>>
    /\ poll' = [poll EXCEPT ![w] = [pc |-> "idle", item |-> 0, max_attempts |-> 0]]
    /\ response' = 0 /\ heard' = NoRequest
    /\ PipeStep
    /\ UNCHANGED <<jobs, gw, dest, userDbPools, pools>>

\* the call returns to pollQueue
ClaimUpdate(w, ok) == LockAndGetUpdate(w, ok) /\ UNCHANGED proc

\* ------------------------------------------------------------ the worker

\* a variant that goes on with whatever decrypt left behind
DecryptionSwallowed(decrypted) == FALSE

\* getUserDbPool's try around decrypt: any error is thrown on as
\* 'Password decryption failed'
DecryptionThrows(decrypted) == ~decrypted.ok

\* getUserDbPool up to its first await: the cached pool if there is one; else
\* decrypt and new Pool(...), whose test connection is then awaited
\* (fresh is the identity the next Pool object gets)
GetUserDbPool(cache, credential, fresh) ==
    IF credential.id \in CredIds /\ cache[credential.id].made
    THEN [pool |-> cache[credential.id], cached |-> TRUE, error |-> NoError]
    ELSE LET decrypted == Decrypt(credential.encrypted_password, ENCRYPTION_KEY)
         IN IF DecryptionThrows(decrypted)
            THEN [pool |-> NoPool, cached |-> FALSE, error |-> MsgDecrypt]
            ELSE [pool |-> NewPool(fresh, decrypted.text), cached |-> FALSE,
                  error |-> NoError]

\* a table name as it stands in a message: "tx-type" holds the letters of "type"
Words(name) == IF name = "tx-type" THEN <<"tx-", "type">> ELSE <<name>>

\* a variant that does not look for a type mismatch
IsTableErrorButType(errorMessage, target_table_name) ==
    \/ Includes(errorMessage, MsgNoRelation(target_table_name))
    \/ Includes(errorMessage, <<"column">>)

\* the catch block's test for a destination-schema error
IsTableError(errorMessage, target_table_name) ==
    \/ Includes(errorMessage, MsgNoRelation(target_table_name))
    \/ Includes(errorMessage, <<"column">>)
    \/ Includes(errorMessage, <<"type">>)

\* table names /^[a-zA-Z0-9_]+$/ accepts
WellFormedNames == {"helius_mint_activity", "mint_copy"}
ValidTableName(targetTable) == targetTable \in WellFormedNames

\* a transform that produced nothing
NoRow ==
    [tx_signature |-> "", block_time |-> 0, monitored_mint_address |-> Absent,
     involved_accounts |-> << >>]

\* transformMintActivity; of the row's columns the key, the block time, the
\* monitored mint and the involved accounts are kept
TransformMintActivity(payload, jobParams) ==
    LET signature == payload.signature
        blockTime == payload.timestamp
        monitoredMint == jobParams.mintAddress
        involvedAccounts ==
            IF Len(payload.accountData) > 0 THEN Truthy(payload.accountData)
            ELSE IF Len(payload.accountKeys) > 0
                 THEN Truthy([i \in 1..Len(payload.accountKeys) |-> payload.accountKeys[i].pubkey])
                 ELSE << >>
        isMintInvolved ==
            \/ monitoredMint \in Range(involvedAccounts)
            \/ \E i \in 1..Len(payload.tokenTransfers) :
                   payload.tokenTransfers[i].mint = monitoredMint
            \/ \E i \in 1..Len(payload.nft.nfts) : payload.nft.nfts[i] = monitoredMint
    IN IF signature = "" \/ blockTime = 0 \/ monitoredMint = Absent THEN NoRow
       ELSE IF ~isMintInvolved THEN NoRow
       ELSE [tx_signature |-> signature, block_time |-> blockTime,
             monitored_mint_address |-> monitoredMint,
             involved_accounts |-> involvedAccounts]

\* transformProgramInteraction: not implemented, always null
TransformProgramInteraction(payload, jobParams) == NoRow

\* the switch on data_category
Transform(jobData, payload) ==
    IF jobData.data_category = "MINT_ACTIVITY"
    THEN TransformMintActivity(payload, jobData.category_params)
    ELSE TransformProgramInteraction(payload, jobData.category_params)

\* a variant that marks every item leaving through the catch block failed
CatchStatusFailed(updateStatus) == "failed"

\* catch: an item set to processed before the throw stays processed
CatchStatus(updateStatus) == IF updateStatus = "processed" THEN "processed" ELSE "failed"

\* The catch and finally blocks, run in one go after a throw: settle updateStatus,
\* start an update of the job's status on a destination-schema error (a second
\* one if the run has started one already), release the client, and send the
\* queue row's update (which lands in a later step).
Caught(t, updateStatus, why, errorMessage) ==
    LET settled == CatchStatus(updateStatus)
        flagged == /\ Exists(t.jobData)
                   /\ settled = "failed"
                   /\ IsTableError(errorMessage, t.jobData.target_table_name)
        reworded == IF flagged THEN TargetTableError(errorMessage) ELSE errorMessage
        second == flagged /\ t.flag = "pending"
    IN [t EXCEPT !.pc = "report", !.updateStatus = settled, !.why = why,
                 !.errorMessage = reworded,
                 !.userDbClient = Release(t.userDbClient),
                 !.pool = NoPool, !.errorMsg = Absent,
                 !.flag = IF flagged THEN "pending" ELSE @,
                 !.jobError = IF flagged /\ ~second THEN reworded ELSE @,
                 !.reflag = IF second THEN reworded ELSE @]

\* a step of processQueueItem on row i
TaskStep(i, pc) ==
    /\ i <= Len(queue)
    /\ task[i].pc = pc
    /\ response' = 0 /\ heard' = NoRequest /\ rpc' = NoRpc
    /\ PipeStep
    /\ UNCHANGED <<rowLock, gw, poll, returns>>

\* a variant that only stops for a job in error
ProcessableUnlessError(job) == job.status # "error"

\* if (jobData.status !== 'active') the item is skipped
Processable(job) == job.status = "active"

\* step 1a: fetch the job of the item
FetchJob(i, dbOk) ==
    /\ TaskStep(i, "fetch_job")
    /\ LET job == jobs[queue[i].job_id]
           found == [task[i] EXCEPT !.jobData = job]
       IN task' = [task EXCEPT ![i] =
              IF ~dbOk THEN Caught(@, "failed", "error", <<"DB error">>)
              ELSE IF ~Exists(job) THEN Caught(@, "processed", "job_missing", <<"no rows">>)
              ELSE IF ~Processable(job)
                   THEN Caught(found, "processed", "job_inactive", <<"Job not active">>)
              ELSE IF job.credential_id = ""
                   THEN Caught(found, "failed", "error", <<"missing credential_id">>)
              ELSE [found EXCEPT !.pc = "fetch_cred"]]
    /\ UNCHANGED <<jobs, queue, dest, userDbPools, pools, proc>>

\* a variant that starts no update of the job
CredentialMissingUnflagged(t) == t

\* the job's status update started when the credential is not found:
\* update({ status: 'error', error_message: `Credential missing: ${credential_id}` })
CredentialMissing(t) ==
    [t EXCEPT !.flag = "pending",
              !.jobError = CredentialMissingError(t.jobData.credential_id)]

\* step 3 and the table-name test, which run without a further await once the
\* client is there
Connected(t, payload) ==
    LET transformResult == Transform(t.jobData, payload)
    IN IF t.jobData.data_category \notin Categories
       THEN Caught(t, t.updateStatus, "error", <<"Unsupported data_category">>)
       ELSE IF transformResult = NoRow
            THEN Caught(t, "processed", "no_row", <<"transformation failed or skipped">>)
       ELSE IF ~ValidTableName(t.jobData.target_table_name)
            THEN Caught(t, t.updateStatus, "error",
                        <<"Invalid target table name specified: ">>
                            \o Words(t.jobData.target_table_name))
       ELSE [t EXCEPT !.pc = "insert", !.pool = NoPool]

\* the message thrown when the credential is not there:
\* `Credential details not found ...: ${credFetchError?.message || 'Not found / PGRST116'}`
CredentialNotFound(credFetchError) ==
    <<"Credential details not found", ": ">>
        \o (IF credFetchError # NoError THEN credFetchError ELSE <<"Not found / PGRST116">>)

\* Step 1b and step 2 up to its first await.  The credential fetch returns
\* credentialData, which is the row stored under the job's credential_id or
\* nothing, or credFetchError.  If the credential is not there the job's
\* status update is started and the message thrown; else getUserDbPool runs up to
\* its first await: a cached pool is returned and pool.connect() called, a failed
\* decryption is thrown, a new pool goes on to its test connection
FetchCredentialData(i, credentialData, credFetchError) ==
    /\ TaskStep(i, "fetch_cred")
    /\ credentialData \in {NoCredential, CredentialRow(task[i].jobData.credential_id)}
    /\ LET got == GetUserDbPool(userDbPools[task[i].worker], credentialData, i)
       IN IF credFetchError # NoError \/ credentialData = NoCredential
          THEN /\ task' = [task EXCEPT ![i] =
                      Caught(CredentialMissing(@), "failed", "error",
                             CredentialNotFound(credFetchError))]
               /\ pools' = pools
          ELSE IF got.error # NoError
          THEN /\ task' = [task EXCEPT ![i] =
                      Caught(@, @.updateStatus, "error", got.error)]
               /\ pools' = pools
          ELSE /\ task' = [task EXCEPT ![i] =
                      [@ EXCEPT !.pool = got.pool,
                                !.pc = IF got.cached THEN "pool_connect"
                                       ELSE "test_connect"]]
               /\ pools' = IF got.cached THEN pools
                           ELSE [pools EXCEPT ![i] = PoolObject(credentialData.id)]
    /\ UNCHANGED <<jobs, queue, dest, userDbPools, proc>>

\* getUserDbPool's catch block up to its await: pool.end() is called on the new
\* pool and awaited, the message is kept for the throw
TestFailed(t, err) == [t EXCEPT !.pc = "test_end", !.errorMsg = err]

\* the test connection's pool.connect() returns (err is its outcome): SELECT 1 is
\* sent on the client, or the catch block is entered
TestConnect(i, err) ==
    /\ TaskStep(i, "test_connect")
    /\ IF err = NoError
       THEN /\ task' = [task EXCEPT ![i] =
                   [@ EXCEPT !.pc = "test_query", !.client = Client(task[i].pool)]]
            /\ pools' = pools
       ELSE /\ task' = [task EXCEPT ![i] = TestFailed(@, err)]
            /\ pools' = [pools EXCEPT ![task[i].pool.id].ended = TRUE]
    /\ UNCHANGED <<jobs, queue, dest, userDbPools, proc>>

\* userDbPools.set(poolKey, pool) is reached only past the test connection
CachedAfterTest(cache, pool, poolKey, err) ==
    IF err = NoError THEN [cache EXCEPT ![poolKey] = pool] ELSE cache

\* SELECT 1 returns (err is its outcome): the client is released, the pool cached
\* and returned, and processQueueItem calls pool.connect(); or the catch block is
\* entered with the client still checked out (release() is skipped by the throw)
TestQuery(i, err) ==
    /\ TaskStep(i, "test_query")
    /\ userDbPools' = [userDbPools EXCEPT ![task[i].worker] =
           CachedAfterTest(@, task[i].pool, pools[task[i].pool.id].credential, err)]
    /\ IF err = NoError
       THEN /\ pools' = [pools EXCEPT ![task[i].pool.id].tested = TRUE]
            /\ task' = [task EXCEPT ![i] =
                   [@ EXCEPT !.pc = "pool_connect", !.client = NoClient]]
       ELSE /\ pools' = [pools EXCEPT ![task[i].pool.id].ended = TRUE]
            /\ task' = [task EXCEPT ![i] = TestFailed(@, err)]
    /\ UNCHANGED <<jobs, queue, dest, proc>>

\* a client of pool p is checked out
CheckedOut(p) ==
    \E i \in QueueIds :
       \/ task[i].userDbClient.open /\ task[i].userDbClient.pool = p
       \/ task[i].client.open /\ task[i].client.pool = p

\* the catch block's await of pool.end() returns, which it does once no client of
\* the pool is checked out (a rejection is logged): the error is thrown on
TestEnd(i, ok) ==
    /\ TaskStep(i, "test_end")
    /\ ~CheckedOut(task[i].pool.id)
    /\ task' = [task EXCEPT ![i] =
           Caught(@, @.updateStatus, "error", MsgTestFailed(task[i].errorMsg))]
    /\ UNCHANGED <<jobs, queue, dest, userDbPools, pools, proc>>

\* pool.connect() returns (err is its outcome); step 3 follows
PoolConnect(i, err) ==
    /\ TaskStep(i, "pool_connect")
    /\ task' = [task EXCEPT ![i] =
           IF err # NoError THEN Caught(@, @.updateStatus, "error", err)
           ELSE Connected([@ EXCEPT !.userDbClient = Client(task[i].pool)],
                          queue[i].payload)]
    /\ UNCHANGED <<jobs, queue, dest, userDbPools, pools, proc>>

\* a variant that inserts whatever the table holds
InsertAlways(rows, row) == Append(rows, row)

\* INSERT ... ON CONFLICT (tx_signature) DO NOTHING, on a table whose key is
\* tx_signature
InsertOnConflictDoNothing(rows, row) ==
    IF \E k \in 1..Len(rows) : rows[k].tx_signature = row.tx_signature
    THEN rows
    ELSE Append(rows, row)

\* step 4: the INSERT; err is the error the destination answers with, if any.
\* The destination executes a statement it has received whether or not the
\* process is still there; the run goes on only in a process that is.
Insert(i, err) ==
    /\ TaskStep(i, "insert")
    /\ LET jobData == task[i].jobData
           row == Transform(jobData, queue[i].payload)
       IN /\ dest' = IF err = NoError
                     THEN [dest EXCEPT ![jobData.target_table_name] =
                              InsertOnConflictDoNothing(@, row)]
                     ELSE dest
          /\ task' = IF Exited(task[i].worker) THEN task
                     ELSE IF err = NoError
                     THEN [task EXCEPT ![i] =
                             [@ EXCEPT !.pc = "report", !.updateStatus = "processed",
                                       !.why = "written", !.wrote = TRUE,
                                       !.userDbClient = Release(task[i].userDbClient)]]
                     ELSE [task EXCEPT ![i] =
                             Caught(@, @.updateStatus, "error", err)]
    /\ UNCHANGED <<jobs, queue, userDbPools, pools, proc>>

\* a variant that puts a failed item back for another attempt
ReportedRowRequeued(row, updateStatus) ==
    [row EXCEPT !.status = IF updateStatus = "failed" THEN "pending" ELSE updateStatus,
                !.last_attempt = "NOW"]

\* .update({ status: updateStatus, error_message, last_attempt })
ReportedRow(row, updateStatus) ==
    [row EXCEPT !.status = updateStatus, !.last_attempt = "NOW"]

\* step 6 lands: update webhook_queue set status = updateStatus where id = item.id;
\* a row the cascade has removed is not there to update, an error is only logged.
\* The run is over: its reference to the client is gone with it, and it is in no
\* process any more.
Report(i, dbOk) ==
    /\ TaskStep(i, "report")
    /\ queue' = IF dbOk /\ queue[i].present
                THEN [queue EXCEPT ![i] = ReportedRow(@, task[i].updateStatus)]
                ELSE queue
    /\ task' = [task EXCEPT ![i] =
           [@ EXCEPT !.pc = "done", !.worker = 0, !.userDbClient = NoClient]]
    /\ UNCHANGED <<jobs, dest, userDbPools, pools, proc>>

\* the update of the job's status the run started first, without await, lands (or
\* fails, logged); a second one is then the one on its way
FlagLands(i, dbOk) ==
    /\ i <= Len(queue)
    /\ task[i].flag = "pending"
    /\ jobs' = IF dbOk THEN SetJobError(jobs, queue[i].job_id, task[i].jobError) ELSE jobs
    /\ task' = [task EXCEPT ![i] =
           IF @.reflag # Absent
           THEN [@ EXCEPT !.jobError = task[i].reflag, !.reflag = Absent]
           ELSE [@ EXCEPT !.flag = IF dbOk THEN "landed" ELSE "lost"]]
    /\ response' = 0 /\ heard' = NoRequest /\ rpc' = NoRpc
    /\ PipeStep
    /\ UNCHANGED <<queue, rowLock, gw, poll, returns, dest, userDbPools, pools, proc>>

\* the two updates are separate requests: the second lands before the first
FlagOvertakes(i, dbOk) ==
    /\ i <= Len(queue)
    /\ task[i].flag = "pending" /\ task[i].reflag # Absent
    /\ jobs' = IF dbOk THEN SetJobError(jobs, queue[i].job_id, task[i].reflag) ELSE jobs
    /\ task' = [task EXCEPT ![i] = [@ EXCEPT !.reflag = Absent]]
    /\ response' = 0 /\ heard' = NoRequest /\ rpc' = NoRpc
    /\ PipeStep
    /\ UNCHANGED <<queue, rowLock, gw, poll, returns, dest, userDbPools, pools, proc>>

\* the pipeline's view of manage-jobs: a DELETE removes a job row, and with it
\* the job's queue rows
JobDeleted(j) ==
    /\ Exists(jobs[j])
    /\ ~JobRowsLocked(j)
    /\ jobs' = [jobs EXCEPT ![j] = EmptyRow("deleted")]
    /\ queue' = CascadeQueue(queue, j)
    /\ response' = 0 /\ heard' = NoRequest /\ rpc' = NoRpc
    /\ PipeStep
    /\ UNCHANGED <<rowLock, pipeVars>>

\* ---------------------------------------------------------- the pipeline
\* job rows as the create flow stores them
JobRow(cat, params, table) ==
    [status |-> "active", data_category |-> cat, category_params |-> params,
     credential_id |-> "cred1", target_table_name |-> table, error_message |-> Absent]

MintJob == JobRow("MINT_ACTIVITY", Params(M1, Absent), "helius_mint_activity")
MintJobCopy == JobRow("MINT_ACTIVITY", Params(M1, Absent), "mint_copy")
MintJobPadded == JobRow("MINT_ACTIVITY", Params(M1pad, Absent), "helius_mint_activity")
ProgramJob == JobRow("PROGRAM_INTERACTIONS", Params(Absent, M2), "helius_mint_activity")
TypedTableJob == JobRow("MINT_ACTIVITY", Params(M1, Absent), "tx-type")

\* a job whose mintAddress is the wallet W1: events that move M1 out of W1 match
\* it on accounts, and their transform finds no transfer of a mint W1
WalletJob == JobRow("MINT_ACTIVITY", Params(W1, Absent), "helius_mint_activity")

\* Workers against a deployment of jobs monitoring M1, W1, and M1 into another
\* table, in turn.
InitPipe ==
    /\ jobs = [j \in JobIds |-> CASE j % 3 = 1 -> MintJob
                                   [] j % 3 = 2 -> WalletJob
                                   [] OTHER -> MintJobCopy]
    /\ credentials = StoredCredentials
    /\ subscription = << >>
    /\ req = [r \in ReqIds |-> IdleReq]
    /\ response = 0
    /\ pushed = NoPush
    /\ EmptyPipe

\* batches of one event
PipeRequests == {Request("POST", "array", <<e>>) : e \in {EvToken, EvKeys}}

\* the outcomes drawn for the calls a step makes: all of them, or success only
\* (for the credential fetch: what is stored, or nothing)
Oks(faulty) == IF faulty THEN BOOLEAN ELSE {TRUE}
Errs(faulty, errs) == IF faulty THEN {NoError} \cup errs ELSE {NoError}
Rows(faulty) ==
    {credentials[c] : c \in CredIds} \cup (IF faulty THEN {NoCredential} ELSE {})

Pipeline(faulty) ==
    \/ \E rq \in PipeRequests, dbOk \in Oks(faulty) : GatewayReceive(rq, dbOk)
    \/ \E dbOk \in Oks(faulty) : GatewayInsert(dbOk)
    \/ \E w \in WorkerIds, max_attempts \in MaxAttemptsArgs : ClaimSelect(w, max_attempts)
    \/ \E w \in WorkerIds, ok \in Oks(faulty) : ClaimUpdate(w, ok)
    \/ \E i \in QueueIds, dbOk \in Oks(faulty) : FetchJob(i, dbOk)
    \/ \E i \in QueueIds, credentialData \in Rows(faulty) :
           FetchCredentialData(i, credentialData, NoError)
    \/ \E i \in QueueIds, err \in Errs(faulty, {MsgTimeout}) : TestConnect(i, err)
    \/ \E i \in QueueIds, err \in Errs(faulty, {MsgTimeout}) : TestQuery(i, err)
    \/ \E i \in QueueIds, err \in Errs(faulty, {MsgTimeout}) : PoolConnect(i, err)
    \/ \E i \in QueueIds, err \in Errs(faulty, {MsgTimeout, MsgColumn}) : Insert(i, err)
    \/ \E i \in QueueIds, dbOk \in Oks(faulty) : Report(i, dbOk)
    \/ \E j \in JobIds : JobDeleted(j)
    \/ \E resourceId \in CredIds : DeleteCredential(resourceId, TRUE, TRUE)

\* gateway, queue and workers with every call to a database answered, while jobs
\* are deleted
NextPipe == Pipeline(FALSE)

SpecPipe == InitPipe /\ [][NextPipe]_vars

\* the same with calls that fail, and the job status updates they start
NextFaults ==
    \/ Pipeline(TRUE)
    \/ \E i \in QueueIds : TestEnd(i, TRUE)
    \/ \E i \in QueueIds, dbOk \in BOOLEAN : FlagLands(i, dbOk)

SpecFaults == InitPipe /\ [][NextFaults]_vars

\* the pipeline as the worker drives it (every claim made with the worker's
\* maximum) with the failures that pass: the batch insert fails, the connection
\* to the user database or its INSERT times out
NextTransient ==
    \/ \E rq \in PipeRequests : GatewayReceive(rq, TRUE)
    \/ \E dbOk \in BOOLEAN : GatewayInsert(dbOk)
    \/ \E w \in WorkerIds : ClaimSelect(w, MAX_PROCESSING_ATTEMPTS)
    \/ \E w \in WorkerIds : ClaimUpdate(w, TRUE)
    \/ \E i \in QueueIds : FetchJob(i, TRUE)
    \/ \E i \in QueueIds, credentialData \in Rows(FALSE) :
           FetchCredentialData(i, credentialData, NoError)
    \/ \E i \in QueueIds, err \in {NoError, MsgTimeout} : TestConnect(i, err)
    \/ \E i \in QueueIds : TestEnd(i, TRUE)
    \/ \E i \in QueueIds : TestQuery(i, NoError)
    \/ \E i \in QueueIds, err \in {NoError, MsgTimeout} : PoolConnect(i, err)
    \/ \E i \in QueueIds, err \in {NoError, MsgTimeout} : Insert(i, err)
    \/ \E i \in QueueIds : Report(i, TRUE)
    \/ \E j \in JobIds : JobDeleted(j)
    \/ \E resourceId \in CredIds : DeleteCredential(resourceId, TRUE, TRUE)

SpecTransient == InitPipe /\ [][NextTransient]_vars

\* ---------------------------------------------------- the receiver on its own
\* deployments the create flow can leave behind: the first job monitors the mint
\* M1, submitted as it is or padded; the others, if any, the same mint or a program
InitGateway ==
    /\ jobs \in [JobIds -> {EmptyRow("none"), MintJob, MintJobPadded, ProgramJob}]
    /\ jobs[1] \in {MintJob, MintJobPadded}
    /\ \A j \in JobIds \ {1} : jobs[j] # MintJobPadded
    /\ credentials = StoredCredentials
    /\ subscription = << >>
    /\ req = [r \in ReqIds |-> IdleReq]
    /\ response = 0
    /\ pushed = NoPush
    /\ EmptyPipe

RECURSIVE Batches(_)
Batches(n) ==
    IF n = 0 THEN {<< >>}
    ELSE Batches(n - 1) \cup {Append(b, e) : b \in {c \in Batches(n - 1) : Len(c) = n - 1},
                                             e \in Events}

\* POSTs of every kind of body, and the other methods with one body each
GatewayRequests ==
    {Request("POST", k, << >>) : k \in BodyKinds \ {"array"}}
    \cup {Request("POST", "array", b) : b \in Batches(MaxBatch)}
    \cup {Request("PUT", "array", <<EvToken>>), Request("OPTIONS", "empty", << >>)}

NextGateway ==
    \/ \E rq \in GatewayRequests, dbOk \in BOOLEAN : GatewayReceive(rq, dbOk)
    \/ \E dbOk \in BOOLEAN : GatewayInsert(dbOk)
    \/ \E j \in JobIds : JobDeleted(j)
    \/ \E resourceId \in CredIds : DeleteCredential(resourceId, TRUE, TRUE)

SpecGateway == InitGateway /\ [][NextGateway]_vars

\* One worker process alone on a queue a batch has filled: the jobs the batch
\* matched (a mint job, with a table name that is well formed or not, and program
\* jobs), the first of them possibly paused since, and every outcome of the calls
\* the worker makes.
WorkerJobs ==
    {[j \in JobIds |-> IF j = 1 THEN first ELSE IF j % 2 = 0 THEN ProgramJob ELSE MintJob] :
        first \in {MintJob, TypedTableJob}}
\* a signed transaction a program rule has reported
EvProgram == [EvRule EXCEPT !.signature = "s2", !.timestamp = 1]
WorkerEvents == {EvToken, EvKeys, EvProgram}
\* the rows of a batch share received_at and are claimed in any order, so of the
\* batches that differ only in the order of their events one is taken
EventOrder(e) == IF e = EvToken THEN 1 ELSE IF e = EvKeys THEN 2 ELSE 3
WorkerBatches ==
    {b \in UNION {[1..n -> WorkerEvents] : n \in 1..MaxBatch} :
        \A k \in 1..(Len(b) - 1) : EventOrder(b[k]) <= EventOrder(b[k + 1])}

\* the platform's tables once the receiver has stored the rows of batch for the
\* jobs it matched, those in paused paused since; the worker has just started
WorkerStart(matched, paused, batch) ==
    /\ LET rows == AllQueueInserts(matched, batch)
       IN /\ Len(rows) \in 1..MaxQueue
          /\ jobs = [j \in JobIds |->
                        IF j \in paused THEN [matched[j] EXCEPT !.status = "paused"]
                        ELSE matched[j]]
          /\ queue = Stored(rows, 1)
    /\ subscription = << >>
    /\ req = [r \in ReqIds |-> IdleReq]
    /\ response = 0
    /\ pushed = NoPush
    /\ rowLock = [i \in QueueIds |-> 0]
    /\ gw = NoBatch
    /\ heard = NoRequest
    /\ poll = [w \in WorkerIds |-> [pc |-> "idle", item |-> 0, max_attempts |-> 0]]
    /\ rpc = NoRpc
    /\ returns = [i \in QueueIds |-> 0]
    /\ task = [i \in QueueIds |-> NoTask]
    /\ dest = [t \in Tables |-> << >>]
    /\ userDbPools = [w \in WorkerIds |-> NoCache]
    /\ pools = NoPools
    /\ proc = Running

\* the credential of the jobs is stored, readable or not
InitWorker ==
    \E matched \in WorkerJobs, paused \in {{}, {1}}, batch \in WorkerBatches :
       /\ WorkerStart(matched, paused, batch)
       /\ credentials \in [CredIds -> CredentialRows]

NextWorker ==
    \/ ClaimSelect(1, MAX_PROCESSING_ATTEMPTS)
    \/ ClaimUpdate(1, TRUE)
    \/ \E i \in QueueIds, dbOk \in BOOLEAN : FetchJob(i, dbOk)
    \/ \E i \in QueueIds, credentialData \in Rows(TRUE) :
           FetchCredentialData(i, credentialData, NoError)
    \/ \E i \in QueueIds : FetchCredentialData(i, NoCredential, MsgType)
    \/ \E i \in QueueIds, err \in {NoError, MsgTimeout} : TestConnect(i, err)
    \/ \E i \in QueueIds, err \in {NoError, MsgTimeout} : TestQuery(i, err)
    \/ \E i \in QueueIds, ok \in BOOLEAN : TestEnd(i, ok)
    \/ \E i \in QueueIds, err \in {NoError, MsgTimeout} : PoolConnect(i, err)
    \/ \E i \in QueueIds, err \in {NoError, MsgTimeout, MsgColumn, MsgType} : Insert(i, err)
    \/ \E i \in QueueIds : Insert(i, MsgNoRelation(task[i].jobData.target_table_name))
    \/ \E i \in QueueIds : Report(i, TRUE)
    \/ \E i \in QueueIds, dbOk \in BOOLEAN : FlagLands(i, dbOk)
    \/ \E i \in QueueIds, dbOk \in BOOLEAN : FlagOvertakes(i, dbOk)
    \/ \E resourceId \in CredIds : DeleteCredential(resourceId, TRUE, TRUE)

SpecWorker == InitWorker /\ [][NextWorker]_vars

\* ------------------------------------------------ the worker's loop and exit
\* The same process followed call by call of pollQueue, and through SIGTERM, on
\* a queue that holds the rows of one mint job for a batch of token transfers.
TransferBatches == {[k \in 1..n |-> EvToken] : n \in 1..MaxBatch}

InitLoop ==
    \E batch \in TransferBatches :
       /\ WorkerStart([j \in JobIds |-> IF j = 1 THEN MintJob ELSE ProgramJob], {}, batch)
       /\ credentials = StoredCredentials

\* a variant that polls on an interval and has no guard
PollQueueUnguarded(p) == [p EXCEPT !.calls = @ + 1]

\* pollQueue up to its await: if (isRunning) return; isRunning = true; the claim
\* call is sent
PollQueueStart(p) ==
    IF p.isRunning THEN [p EXCEPT !.ticks = @ - 1]
    ELSE [p EXCEPT !.ticks = @ - 1, !.isRunning = TRUE, !.calls = @ + 1]

\* a variant that stays in pollQueue, awaiting the processing it started
PollQueueAwaiting(p) == [p EXCEPT !.calls = @ - 1]

\* finally: isRunning = false; setTimeout(pollQueue, WORKER_POLL_INTERVAL)
PollQueueFinally(p) ==
    [p EXCEPT !.isRunning = FALSE, !.ticks = @ + 1, !.calls = @ - 1]

\* a call of pollQueue that is due runs
PollTick ==
    /\ ~proc.exited /\ proc.ticks > 0
    /\ proc' = PollQueueStart(proc)
    /\ response' = 0 /\ heard' = NoRequest /\ rpc' = NoRpc
    /\ PipeStep
    /\ UNCHANGED <<jobs, queue, rowLock, gw, poll, returns, task, dest, userDbPools,
                   pools>>

\* the claim call reaches the function, which runs in the database whether or
\* not the process is still there; with no row to lock it returns at once and
\* pollQueue's finally runs, unless no process is left to receive the answer
PollSelect(w) ==
    /\ proc.calls > 0
    /\ LockAndGetSelect(w, MAX_PROCESSING_ATTEMPTS)
    /\ proc' = IF poll'[w].pc = "locked" THEN proc
               ELSE IF proc.exited THEN [proc EXCEPT !.calls = @ - 1]
               ELSE PollQueueFinally(proc)

\* the function's update is committed and the call returns: in a process that
\* is still there processQueueItem is started on the row returned and not
\* awaited, then finally runs
PollReturns(w, ok) ==
    /\ LockAndGetUpdate(w, ok)
    /\ proc' = IF proc.exited THEN [proc EXCEPT !.calls = @ - 1]
               ELSE PollQueueFinally(proc)

\* the pools the cache of the process holds (the process is that of worker 1)
CachedPools == {userDbPools[1][c].id : c \in {k \in CredIds : userDbPools[1][k].made}}

\* a variant without the timer
NoGraceTimer(p) == p

\* setTimeout(() => process.exit(1), 10000)
SetGraceTimer(p) == [p EXCEPT !.grace = TRUE]

\* Promise.all(...).then(() => process.exit(0)), which runs as soon as the last
\* end() of one handler's calls has resolved (with no pool in the cache, right
\* after the handler)
ExitWhenClosed(p) ==
    IF \E group \in p.awaited : group \subseteq p.closed
    THEN [p EXCEPT !.exited = TRUE, !.code = 0]
    ELSE p

\* SIGTERM arrives, for the first time or again: the handler calls end() on every
\* pool of the cache, awaits them all and sets its timer.  end() on a pool that is
\* ending already is rejected ('Called end on pool more than once'), and with it
\* Promise.all: .catch, process.exit(1) at once.  Polling is left as it is.
Sigterm ==
    /\ ~proc.exited
    /\ LET called == SetGraceTimer([proc EXCEPT !.signalled = TRUE,
                                                !.closing = @ \cup CachedPools])
       IN proc' = IF \E p \in CachedPools : pools[p].ended
                  THEN [called EXCEPT !.exited = TRUE, !.code = 1]
                  ELSE ExitWhenClosed([called EXCEPT !.awaited = @ \cup {CachedPools}])
    /\ pools' = [p \in QueueIds |->
                    IF p \in CachedPools THEN [pools[p] EXCEPT !.ended = TRUE]
                    ELSE pools[p]]
    /\ response' = 0 /\ heard' = NoRequest /\ rpc' = NoRpc
    /\ PipeStep
    /\ UNCHANGED <<jobs, queue, rowLock, gw, poll, returns, task, dest, userDbPools>>

\* what is left unchanged by a step of the shutdown
ShutdownStep ==
    /\ response' = 0 /\ heard' = NoRequest /\ rpc' = NoRpc
    /\ PipeStep
    /\ UNCHANGED <<jobs, queue, rowLock, gw, poll, returns, task, dest, userDbPools,
                   pools>>

\* a pool's end() settles, which it does once no client of the pool is checked
\* out; a rejection makes Promise.all reject: .catch, process.exit(1)
PoolEnded(p, ok) ==
    /\ ~proc.exited
    /\ p \in proc.closing \ proc.closed
    /\ ~CheckedOut(p)
    /\ proc' = IF ok THEN ExitWhenClosed([proc EXCEPT !.closed = @ \cup {p}])
                ELSE [proc EXCEPT !.exited = TRUE, !.code = 1]
    /\ ShutdownStep

\* the timer of the handler fires: process.exit(1)
GraceExpires ==
    /\ proc.grace /\ ~proc.exited
    /\ proc' = [proc EXCEPT !.exited = TRUE, !.code = 1]
    /\ ShutdownStep

\* a step of an item's processing that is made in the process, which has not
\* exited; the steps without it are requests that were sent, and are served
Alive(step) == ~proc.exited /\ step

NextLoop ==
    \/ PollTick
    \/ PollSelect(1)
    \/ \E ok \in BOOLEAN : PollReturns(1, ok)
    \/ \E i \in QueueIds : Alive(FetchJob(i, TRUE))
    \/ \E i \in QueueIds, credentialData \in Rows(TRUE) :
           Alive(FetchCredentialData(i, credentialData, NoError))
    \/ \E i \in QueueIds, err \in {NoError, MsgTimeout} : Alive(TestConnect(i, err))
    \/ \E i \in QueueIds, err \in {NoError, MsgTimeout} : Alive(TestQuery(i, err))
    \/ \E i \in QueueIds : Alive(TestEnd(i, TRUE))
    \/ \E i \in QueueIds, err \in {NoError, MsgTimeout} : Alive(PoolConnect(i, err))
    \/ \E i \in QueueIds, err \in {NoError, MsgTimeout} : Insert(i, err)
    \/ \E i \in QueueIds : Report(i, TRUE)
    \/ \E i \in QueueIds : FlagLands(i, TRUE)
    \/ Sigterm
    \/ \E p \in QueueIds, ok \in BOOLEAN : PoolEnded(p, ok)
    \/ GraceExpires
    \/ \E resourceId \in CredIds : DeleteCredential(resourceId, TRUE, TRUE)

SpecLoop == InitLoop /\ [][NextLoop]_vars

\* the same with the handler's timer firing once it is set
SpecShutdown == SpecLoop /\ WF_vars(GraceExpires)

\* ------------------------------------------------- every step returns
\* The worker of SpecWorker with queue updates that may fail, and with every call
\* an item's processing awaits returning: a run that can take a step takes one.

\* the steps of processQueueItem on row i, with every outcome of its calls
ProcessingStep(i) ==
    \/ \E dbOk \in BOOLEAN : FetchJob(i, dbOk)
    \/ \E credentialData \in Rows(TRUE) :
           FetchCredentialData(i, credentialData, NoError)
    \/ \E err \in {NoError, MsgTimeout} : TestConnect(i, err)
    \/ \E err \in {NoError, MsgTimeout} : TestQuery(i, err)
    \/ \E ok \in BOOLEAN : TestEnd(i, ok)
    \/ \E err \in {NoError, MsgTimeout} : PoolConnect(i, err)
    \/ \E err \in {NoError, MsgTimeout, MsgColumn, MsgType} : Insert(i, err)
    \/ Insert(i, MsgNoRelation(task[i].jobData.target_table_name))
    \/ \E dbOk \in BOOLEAN : Report(i, dbOk)

NextReturning ==
    \/ ClaimSelect(1, MAX_PROCESSING_ATTEMPTS)
    \/ ClaimUpdate(1, TRUE)
    \/ \E i \in QueueIds : ProcessingStep(i)
    \/ \E i \in QueueIds, dbOk \in BOOLEAN : FlagLands(i, dbOk)

EveryStepReturns == \A i \in QueueIds : WF_vars(ProcessingStep(i))

\* the worker started on a batch of transfers of the monitored mint
InitReturning ==
    \E matched \in WorkerJobs, paused \in {{}, {1}}, batch \in TransferBatches :
       /\ WorkerStart(matched, paused, batch)
       /\ credentials \in [CredIds -> CredentialRows]

SpecReturning == InitReturning /\ [][NextReturning]_vars /\ EveryStepReturns

\* ------------------------------------------------- the reconciler's claims

\* the address the reconciler registers for a job
MonitoredAddress(job) == Trim(CategoryAddress(job.data_category, job.category_params))

ActiveJobs == {j \in JobIds : jobs[j].status = "active"}
ActiveAddressSet(except) == {MonitoredAddress(jobs[j]) : j \in ActiveJobs \ {except}}
NoDuplicates(list) == \A a, b \in 1..Len(list) : list[a] = list[b] => a = b

\* a deletion has found the job's address unneeded and has not ended yet
UnderDeletion(j) ==
    \E r \in ReqIds : req[r].job = j /\ req[r].pc \in {"d_edit", "d_row"}

\* C3: every active job's monitored address is in the subscription's list, except
\* for a job whose deletion has found the address unneeded (the exception is read
\* generously: it lasts until that deletion ends, not only until its edit call)
C3_ActiveJobsCovered ==
    \A j \in ActiveJobs :
        ~UnderDeletion(j) => MonitoredAddress(jobs[j]) \in Range(subscription)

\* C4: a request for a job with address A, run alone, never sends Helius a list
\* without A while another active job monitors A; every list it sends holds the
\* addresses of all other active jobs
C4_SharedAddressKept ==
    [][\A r \in ReqIds :
          (~Free(r) /\ pushed'.sent) =>
             /\ ActiveAddressSet(req[r].job) \subseteq Range(pushed'.list)
             /\ (req[r].addr \in ActiveAddressSet(req[r].job)
                   => req[r].addr \in Range(pushed'.list))]_vars

C4_Witness ==
    \E r \in ReqIds :
        /\ req[r].pc = "c_insert" /\ pushed.sent
        /\ req[r].addr \in ActiveAddressSet(NoJob)

\* C5: once a create request's edit has gone through, the subscription is the
\* duplicate-free list of the active jobs' addresses and the new address; with no
\* active job it is the one-element list of the new address; and it is unchanged
\* when the request ends with 201
C5_CreatePushesUnion ==
    /\ \A r \in ReqIds : req[r].pc = "c_insert" =>
          /\ NoDuplicates(subscription)
          /\ Range(subscription) = ActiveAddressSet(NoJob) \cup {req[r].addr}
          /\ (ActiveJobs = {} => subscription = <<req[r].addr>>)
    /\ response = 201 =>
          NoDuplicates(subscription) /\ Range(subscription) = ActiveAddressSet(NoJob)

C5_Witness ==
    \E r \in ReqIds :
        /\ req[r].pc = "c_insert"
        /\ ActiveJobs # {}
        /\ req[r].addr \notin ActiveAddressSet(NoJob)

\* C6: in a deletion run alone, an edit that goes through leaves a list that is
\* exactly the other active jobs' addresses, so without the deleted job's address A;
\* and while another active job monitors A no step of the deletion sends an edit or
\* changes the list, so A, if listed, stays listed
C6_DeleteShrinksOrKeeps ==
    [][\A r \in ReqIds : req[r].kind = "delete" =>
          LET A == req[r].addr
              others == ActiveAddressSet(req[r].job)
          IN /\ pushed'.sent =>
                   /\ A \notin Range(subscription')
                   /\ Range(subscription') = others
                   /\ req'[r].edit = "ok"
             /\ A \in others =>
                   /\ ~pushed'.sent
                   /\ subscription' = subscription
                   /\ (A \in Range(subscription) => A \in Range(subscription'))
                   /\ (req[r].pc = "d_read" /\ ~Free(r)' => req'[r].pc = "d_row")]_vars

C6_Witness ==
    \E r \in ReqIds :
        /\ req[r].pc = "d_row" /\ req[r].edit = "ok"
        /\ ActiveAddressSet(req[r].job) # {}

C6_WitnessShared ==
    \E r \in ReqIds :
        /\ req[r].pc = "d_row" /\ req[r].edit = "none"
        /\ req[r].addr \in ActiveAddressSet(req[r].job)

\* --------------------------------------------------- the pipeline's claims

\* C1: no queue row is returned by two claim calls, and no two calls in flight
\* hold the same row
C1_ClaimedOnce ==
    /\ \A i \in QueueIds : returns[i] <= 1
    /\ \A w, v \in WorkerIds :
          (w # v /\ poll[w].pc = "locked" /\ poll[v].pc = "locked")
             => poll[w].item # poll[v].item

\* two calls race: the second has skipped the older row the first holds and
\* holds a younger one
C1_Witness ==
    \E w, v \in WorkerIds :
        /\ poll[w].pc = "locked" /\ poll[v].pc = "locked"
        /\ queue[poll[w].item].received_at < queue[poll[v].item].received_at

\* C2: a row a claim call returns had, before the call, a counter below the
\* call's max_attempts
C2_BelowMaxAttempts ==
    (rpc.called /\ rpc.item # 0) =>
        queue[rpc.item].processing_attempts - 1 < rpc.max_attempts

\* a call returned nothing although a pending, unlocked row is there: the row's
\* counter is not below the call's max_attempts
C2_Witness ==
    /\ rpc.called /\ rpc.item = 0
    /\ \E i \in 1..Len(queue) :
          /\ queue[i].present /\ queue[i].status = "pending" /\ rowLock[i] = 0
          /\ queue[i].processing_attempts >= rpc.max_attempts

\* the pairs the batch should queue: event k, active job j, the job's monitored
\* address among the event's accounts
MatchedPairs(js, events) ==
    {<<k, j>> \in (1..Len(events)) \X JobIds :
        /\ js[j].status = "active"
        /\ MonitoredAddress(js[j]) \in Range(GetAccountsFromPayload(events[k]))}

RowsFor(rows, j, payload) ==
    {i \in 1..Len(rows) : rows[i].job_id = j /\ rows[i].payload = payload}

\* C7: a batch whose directory fetch succeeds stages one row (pending, counter 0,
\* the event as payload) per matched pair and no other row, and a successful
\* insert appends exactly the staged rows to the queue
C7_ExactlyTheMatchedPairs ==
    [][/\ (heard'.kind = "array" /\ response' # 500) =>
             LET events == heard'.events
                 staged == IF gw'.pc = "insert" THEN gw'.rows ELSE << >>
                 pairs == MatchedPairs(jobs, events)
             IN /\ Len(staged) = Cardinality(pairs)
                /\ \A k \in 1..Len(events), j \in JobIds :
                      Cardinality(RowsFor(staged, j, events[k]))
                        = Cardinality({p \in pairs : p[2] = j /\ events[p[1]] = events[k]})
                /\ \A i \in 1..Len(staged) :
                      staged[i].status = "pending" /\ staged[i].processing_attempts = 0
       /\ (gw.pc = "insert" /\ gw'.pc = "idle" /\ queue' # queue) =>
             /\ Len(queue') = Len(queue) + Len(gw.rows)
             /\ \A i \in 1..Len(gw.rows) :
                   LET row == queue'[Len(queue) + i]
                   IN /\ row.job_id = gw.rows[i].job_id
                      /\ row.payload = gw.rows[i].payload
                      /\ row.status = "pending" /\ row.processing_attempts = 0
             /\ SubSeq(queue', 1, Len(queue)) = queue]_vars

\* C8: an item whose job was found missing is, once the worker's report is
\* done, a row with status processed; nothing was written for it and no second
\* claim call returned it
C8_MissingJobItemProcessed ==
    \A i \in 1..Len(queue) :
        (task[i].pc = "done" /\ task[i].why = "job_missing") =>
            /\ queue[i].present /\ queue[i].status = "processed"
            /\ ~task[i].wrote
            /\ returns[i] <= 1

\* C9: when the transform returns no row the item leaves with updateStatus
\* processed, no INSERT and no job status update; the steps from there to the end
\* of the report change neither a destination table nor a job, and the report
\* sets the row to processed
C9_NoRowIsProcessed ==
    [][\A i \in QueueIds :
          /\ task'[i].why = "no_row" =>
                /\ task'[i].updateStatus = "processed"
                /\ ~task'[i].wrote
                /\ task'[i].flag = "none"
          /\ (task'[i].why = "no_row" /\ task'[i] # task[i]) =>
                /\ dest' = dest
                /\ jobs' = jobs
                /\ (task'[i].pc = "done" /\ queue[i].present)
                       => queue'[i].status = "processed"]_vars

\* a match on accounts only was processed with nothing written
C9_Witness ==
    \E i \in 1..Len(queue) :
        /\ task[i].pc = "done" /\ task[i].why = "no_row"
        /\ queue[i].present /\ queue[i].status = "processed"
        /\ JobMonitoredAddress(task[i].jobData)
              \in Range(GetAccountsFromPayload(queue[i].payload))
        /\ \A t \in WellFormedNames : dest[t] = << >>

SignatureRows(rows, signature) ==
    {k \in 1..Len(rows) : rows[k].tx_signature = signature}

\* C10: a destination table never holds two rows with one tx_signature; an
\* INSERT of a signature the table holds changes nothing, and after any INSERT
\* the table holds one row with its signature
C10_OneRowPerSignature ==
    [][\A i \in QueueIds :
          (task[i].pc = "insert" /\ task'[i].wrote) =>
             LET table == task[i].jobData.target_table_name
                 signature == queue[i].payload.signature
             IN /\ SignatureRows(dest[table], signature) # {} => dest' = dest
                /\ Cardinality(SignatureRows(dest'[table], signature)) = 1
                /\ \A t \in WellFormedNames : \A a, b \in 1..Len(dest'[t]) :
                      dest'[t][a].tx_signature = dest'[t][b].tx_signature => a = b]_vars

\* two items with one signature and different payloads were written into one
\* table, which holds the first one's row alone
C10_Witness ==
    \E i, k \in 1..Len(queue) :
        /\ i # k
        /\ task[i].wrote /\ task[k].wrote
        /\ queue[i].payload.signature = queue[k].payload.signature
        /\ queue[i].payload # queue[k].payload
        /\ task[i].jobData.target_table_name = task[k].jobData.target_table_name
        /\ Len(dest[task[i].jobData.target_table_name]) = 1

\* ------------------------------------------------- claims about the gateway's answers
\* the request just received carries no batch: an empty body, JSON that is not an
\* array, or an empty array
NoBatchBody(rq) ==
    \/ rq.kind \in {"empty", "object", "null", "string"}
    \/ rq.kind = "array" /\ rq.events = << >>

\* a request was just received, and its fetch of the active jobs, where it made
\* one, was answered (the failed fetch is C14's case)
Served(rq) == rq.method # "" /\ rq.directory # "failed"

\* the request just received was answered with code and has staged no queue row
AnsweredWithout(code) == response = code /\ gw.pc = "idle"

\* C11: a request whose body is empty, is valid JSON that is not an array, or is
\* an empty array is answered 200 and creates no queue item, whether or not any
\* job is active.
C11_NoBatchIsAccepted ==
    (Served(heard) /\ NoBatchBody(heard)) => AnsweredWithout(200)

\* C12: a request whose body is not valid JSON is answered 400 and creates no
\* queue item.
C12_MalformedIsRejected ==
    (Served(heard) /\ heard.kind = "malformed") => AnsweredWithout(400)

\* C13: a request with a method other than POST (or the CORS preflight OPTIONS) is
\* answered 405 and creates no queue item; every other request is answered 200,
\* unless its body is malformed JSON, which is answered 400.  (The bodies of C11
\* and C12 are left to those claims: the second part is stated for the preflight
\* and for POSTs that carry an array, whose answer comes with the insert when rows
\* were staged.)
C13_OnlyPostIsProcessed ==
    /\ (Served(heard) /\ heard.method \notin {"POST", "OPTIONS"}) => AnsweredWithout(405)
    /\ (Served(heard) /\ (heard.method = "OPTIONS" \/
                           (heard.method = "POST" /\ heard.kind = "array"))) =>
          (gw.pc = "insert" \/ response = 200)

\* C14: when the fetch of the active jobs fails, the request is answered 200 and
\* no queue item is created.
C14_DirectoryFailureIsAccepted ==
    heard.directory = "failed" => AnsweredWithout(200)

\* C15: when the insert of the batch's queue items fails, the request is still
\* answered 200 and the queue holds no item of that batch.
C15_FailedInsertIsAccepted ==
    [][(gw.pc = "insert" /\ gw'.pc = "idle" /\ gw'.processingError) =>
          (response' = 200 /\ queue' = queue)]_vars

\* the insert of a batch has just failed and the request was answered 200
C15_Witness == gw.processingError /\ response = 200 /\ heard = NoRequest

\* ------------------------------------------------------ claims about the queue rows
\* no call of the claim function is between its SELECT and its UPDATE
NoClaimInFlight == \A v \in WorkerIds : poll[v].pc = "idle"

\* C16: a claim call that runs with no other claim in flight returns the item
\* with the oldest received time among the pending items whose attempt counter is
\* below maxAttempts, having set it to processing, added one to its counter and
\* stamped its last-attempt time; if there is no such item it returns empty and
\* changes nothing.  A claim never modifies an item other than the one returned.
C16_ClaimTakesOldest ==
    [][/\ \A w \in WorkerIds :
            (NoClaimInFlight /\ poll'[w].pc = "locked") =>
               LET i == poll'[w].item
                   m == poll'[w].max_attempts
               IN /\ Eligible(queue[i], m)
                  /\ \A k \in 1..Len(queue) :
                        Eligible(queue[k], m) =>
                           queue[i].received_at <= queue[k].received_at
                  /\ queue' = queue
       /\ (rpc'.called /\ rpc'.item # 0) =>
             LET i == rpc'.item
             IN /\ Eligible(queue[i], rpc'.max_attempts)
                /\ queue' = [queue EXCEPT ![i] =
                      [@ EXCEPT !.status = "processing",
                                !.processing_attempts = queue[i].processing_attempts + 1,
                                !.last_attempt = "NOW"]]
       /\ (rpc'.called /\ rpc'.item = 0) =>
             /\ queue' = queue
             /\ NoClaimInFlight =>
                   \A k \in 1..Len(queue) : ~Eligible(queue[k], rpc'.max_attempts)
      ]_vars

\* a claim running alone has returned an item while a younger item was pending
C16_Witness ==
    /\ rpc.called /\ rpc.item # 0
    /\ NoClaimInFlight
    /\ queue[rpc.item].status = "processing"
    /\ \E k \in 1..Len(queue) :
          /\ queue[k].present /\ queue[k].status = "pending"
          /\ queue[k].received_at > queue[rpc.item].received_at

\* C17: a queue item's status changes only from pending to processing, by a
\* claim, and from processing to processed or failed, by the worker's report; an
\* item that is processed or failed never changes again, no item goes back to
\* pending, and the gateway stores every item as pending.
C17_StatusMovesForward ==
    [][/\ \A i \in 1..Len(queue) :
            (queue[i].present /\ queue'[i].present
                /\ queue'[i].status # queue[i].status) =>
               \/ /\ queue[i].status = "pending" /\ queue'[i].status = "processing"
                  /\ rpc'.called /\ rpc'.item = i
               \/ /\ queue[i].status = "processing"
                  /\ queue'[i].status \in {"processed", "failed"}
                  /\ task[i].pc = "report" /\ task'[i].pc = "done"
       /\ Len(queue') >= Len(queue)
       /\ \A i \in (Len(queue) + 1)..Len(queue') : queue'[i].status = "pending"
      ]_vars

\* one item has been reported failed and another processed
C17_Witness ==
    \E i, k \in 1..Len(queue) :
        /\ queue[i].present /\ queue[i].status = "failed" /\ task[i].pc = "done"
        /\ queue[k].present /\ queue[k].status = "processed" /\ task[k].pc = "done"

\* C18: an item's attempt counter starts at 0 and never decreases; a claim that
\* returns the item adds exactly 1 to it, and nothing else changes it: the
\* worker's report leaves it as it is.
C18_CounterCountsClaims ==
    [][\A i \in 1..Len(queue') :
          IF i > Len(queue) THEN queue'[i].processing_attempts = 0
          ELSE LET before == queue[i].processing_attempts
                   after == queue'[i].processing_attempts
               IN /\ (rpc'.called /\ rpc'.item = i) => after = before + 1
                  /\ ~(rpc'.called /\ rpc'.item = i) => after = before
                  /\ (task[i].pc = "report" /\ task'[i].pc = "done") => after = before
      ]_vars

\* an item claimed once has been reported and has counter 1
C18_Witness ==
    \E i \in 1..Len(queue) :
        /\ queue[i].present /\ task[i].pc = "done"
        /\ queue[i].status = "processed" /\ queue[i].processing_attempts = 1

\* C19: no operation removes a queue item: an item the gateway has created is in
\* the queue in every later state, also after its job was deleted.
C19_ItemsAreKept == \A i \in 1..Len(queue) : queue[i].present

\* C20: an item whose processing failed with an error that is neither a schema
\* error nor a missing credential (here: a timeout of the user database) remains
\* eligible for reclaim while its attempt counter is below maxAttempts: a claim
\* called with maxAttempts can return it again.
C20_FailedItemStaysEligible ==
    \A i \in 1..Len(queue) :
        (/\ queue[i].present
         /\ task[i].pc = "done" /\ task[i].updateStatus = "failed" /\ task[i].flag = "none"
         /\ queue[i].processing_attempts < MAX_PROCESSING_ATTEMPTS)
        => Eligible(queue[i], MAX_PROCESSING_ATTEMPTS)

\* ------------------------------------------------- claims about processQueueItem
\* the worker has finished item i: its report has landed
Finished(i) == i <= Len(queue) /\ task[i].pc = "done"

\* C21: for an active PROGRAM_INTERACTIONS job, processing a claimed item whose
\* event involves the job's programId writes a row to the job's destination table
\* (every call the worker makes being answered).
C21_ProgramItemIsWritten ==
    \A i \in QueueIds :
        (/\ Finished(i)
         /\ task[i].jobData.status = "active"
         /\ task[i].jobData.data_category = "PROGRAM_INTERACTIONS"
         /\ task[i].jobData.category_params.programId
               \in Range(GetAccountsFromPayload(queue[i].payload))
         /\ task[i].why # "error")
        => /\ task[i].wrote
           /\ dest[task[i].jobData.target_table_name] # << >>

\* C26: when the worker processes an item whose job exists with a status other
\* than active, the item is reported processed, no credential is resolved, no
\* connection is obtained and no row is written; so an item whose processing
\* read the job after it was flagged error writes nothing.  (The report marks the
\* row if it is still there: a credential's deletion takes its jobs' rows away.)
C26_InactiveJobIsSkipped ==
    \A i \in QueueIds :
        (/\ i <= Len(queue)
         /\ Exists(task[i].jobData)
         /\ task[i].jobData.status # "active")
        => /\ task[i].pc \in {"report", "done"}
           /\ task[i].updateStatus = "processed"
           /\ ~task[i].wrote
           /\ task[i].flag = "none"
           /\ (task[i].pc = "done" /\ queue[i].present) => queue[i].status = "processed"

\* an item that read its job after the flag was stored has been finished
C26_Witness ==
    \E i \in QueueIds :
        /\ Finished(i) /\ task[i].jobData.status = "error"
        /\ queue[i].status = "processed"

\* C27: when the worker processes an item of an active job whose credential
\* cannot be resolved, the item is reported failed, an update setting the job's
\* status to error is issued, no connection is obtained and no row is written
\* (the report marks the row if it is still there).
C27_MissingCredentialFailsItem ==
    [][\A i \in QueueIds :
          /\ (\E credFetchError \in {NoError, MsgType} :
                 FetchCredentialData(i, NoCredential, credFetchError)) =>
                /\ task[i].jobData.status = "active"
                /\ task'[i].pc = "report"
                /\ task'[i].updateStatus = "failed"
                /\ task'[i].pool = NoPool /\ task'[i].userDbClient = NoClient
                /\ userDbPools' = userDbPools
                /\ task'[i].flag = "pending"
                /\ task'[i].jobError = CredentialMissingError(task[i].jobData.credential_id)
                /\ ~task'[i].wrote
                /\ dest' = dest
          /\ (task[i].pc = "report" /\ task'[i].pc = "done" /\ queue[i].present
                 /\ task[i].jobError # Absent /\ Head(task[i].jobError) = "Credential missing:") =>
                /\ queue'[i].status = "failed"
                /\ ~task'[i].wrote
      ]_vars

\* an item whose credential was not found has been reported failed and its job
\* is in error with the message of the missing credential
C27_Witness ==
    \E i \in QueueIds :
        /\ Finished(i) /\ queue[i].status = "failed"
        /\ task[i].flag = "landed"
        /\ jobs[queue[i].job_id].status = "error"
        /\ jobs[queue[i].job_id].error_message = CredentialMissingError("cred1")

\* the errors a destination answers an INSERT with when its schema does not fit:
\* the table is missing, a column is missing, a value has the wrong type
SchemaErrors(target_table_name) == {MsgNoRelation(target_table_name), MsgColumn, MsgType}

\* C28: when the destination insert of a claimed item fails with a
\* destination-schema error (missing table, missing column, type mismatch), the
\* item is reported failed and the job's status is set to error with an error
\* message (by an update that, as every call, may itself fail and is then
\* logged); the updates mark the row and the job if they are still there.
C28_SchemaErrorFlagsJob ==
    [][\A i \in QueueIds :
          LET j == queue[i].job_id
              schema == SchemaErrors(task[i].jobData.target_table_name)
          IN /\ (task[i].pc = "insert" /\ task'[i].pc = "report"
                    /\ \E m \in schema : task'[i].errorMessage = TargetTableError(m)) =>
                   /\ task'[i].updateStatus = "failed"
                   /\ task'[i].flag = "pending"
                   /\ task'[i].jobError = task'[i].errorMessage
             /\ (task[i].pc = "insert" /\ task'[i].pc = "report" /\ ~task'[i].wrote) =>
                   task'[i].errorMessage \notin schema
             /\ (i <= Len(queue) /\ task[i].flag = "pending" /\ task'[i].flag = "landed"
                    /\ Exists(jobs[j])) =>
                   /\ jobs'[j].status = "error"
                   /\ jobs'[j].error_message = task[i].jobError
                   /\ jobs'[j].error_message # Absent
             /\ (task[i].pc = "report" /\ task'[i].pc = "done" /\ queue[i].present
                    /\ \E m \in schema : task[i].errorMessage = TargetTableError(m)) =>
                   queue'[i].status = "failed"
      ]_vars

\* an item whose insert met a type mismatch has been reported failed and its job
\* is in error with that message
C28_Witness ==
    \E i \in QueueIds :
        /\ Finished(i) /\ queue[i].status = "failed"
        /\ task[i].errorMessage = TargetTableError(MsgType)
        /\ jobs[queue[i].job_id].status = "error"
        /\ jobs[queue[i].job_id].error_message = TargetTableError(MsgType)

\* the processing of an item ended on a missing credential or on a
\* destination-schema error of its insert
CredentialOrSchemaError(t) ==
    \/ t.errorMessage = CredentialNotFound(NoError)
    \/ t.errorMessage = TargetTableError(CredentialNotFound(MsgType))
    \/ \E m \in SchemaErrors(t.jobData.target_table_name) :
          t.errorMessage = TargetTableError(m)

\* C29: a job's status is changed to error only by the worker and only when
\* processing hit a destination-schema error or a missing credential; every
\* other failure (job-fetch error, decryption failure, connection failure or
\* timeout, invalid table name) and every processed outcome leaves the job's
\* status and error message unchanged.  (A row that a deletion removes is not a
\* row whose status changed.)
C29_OnlySchemaOrCredentialFlags ==
    [][\A j \in JobIds :
          (/\ Exists(jobs[j]) /\ Exists(jobs'[j])
           /\ \/ jobs'[j].status # jobs[j].status
              \/ jobs'[j].error_message # jobs[j].error_message) =>
             \E i \in 1..Len(queue) :
                /\ queue[i].job_id = j
                /\ task[i].flag = "pending" /\ task'[i] # task[i]
                /\ \E error_message \in {task[i].jobError, task[i].reflag} :
                      jobs'[j] = [jobs[j] EXCEPT !.status = "error",
                                                 !.error_message = error_message]
                /\ CredentialOrSchemaError(task[i])
      ]_vars


\* ------------------------------------------------------------ claims about the create and delete flows

\* a step that persists a job row
Persists(j) == ~Exists(jobs[j]) /\ Exists(jobs'[j])

\* C22: a create request persists its job row only after its edit call, which set
\* the subscription to a list holding the new job's address, was answered ok; when
\* the edit call fails no row is persisted and the request is answered with an error
C22_EditBeforeInsert ==
    [][/\ \A j \in JobIds : Persists(j) =>
              \E r \in ReqIds : /\ req[r].kind = "create" /\ req[r].pc = "c_insert"
                                /\ req[r].edit = "ok"
       /\ \A r \in ReqIds : req[r].pc = "c_edit" /\ req'[r] # req[r] =>
              IF pushed'.sent
              THEN /\ req[r].addr \in Range(pushed'.list)
                   /\ subscription' = pushed'.list
                   /\ jobs' = jobs
                   /\ req'[r].pc = "c_insert" /\ req'[r].edit = "ok"
              ELSE /\ jobs' = jobs
                   /\ Free(r)'
                   /\ response' >= 400]_vars

\* a job was just created and its address is in the subscription
C22_Witness ==
    /\ response = 201
    /\ \E j \in JobIds :
          /\ Exists(jobs[j])
          /\ Trim(CategoryAddress(jobs[j].data_category, jobs[j].category_params))
                \in Range(subscription)


\* the insert of a create request fails after its edit went through: the next step
\* of the request is the rollback edit, whose list is the list read before the
\* update, and the request is answered 500 whether or not that edit goes through
RollbackIsIssued ==
    \A r \in ReqIds :
       /\ (req[r].pc = "c_insert" /\ req'[r] # req[r] /\ jobs' = jobs)
             => req'[r] = [req[r] EXCEPT !.pc = "c_rollback"]
       /\ (req[r].pc = "c_rollback" /\ req'[r] # req[r])
             => /\ req[r].edit = "ok"
                /\ pushed'.sent => pushed'.list = req[r].cur
                /\ jobs' = jobs
                /\ Free(r)' /\ response' = 500

\* C23 as stated: ... and after a rollback that went through, the subscription holds
\* the addresses it held when the request arrived
C23_RollbackRestoresSubscription ==
    [][/\ RollbackIsIssued
       /\ \A r \in ReqIds : (req[r].pc = "c_rollback" /\ pushed'.sent)
              => Range(subscription') = Range(req[r].before)]_vars

\* C23: ... and after a rollback that went through, the subscription is the list of
\* the active jobs' addresses, as read before the update
C23_RollbackRestoresReadList ==
    [][/\ RollbackIsIssued
       /\ \A r \in ReqIds : (req[r].pc = "c_rollback" /\ pushed'.sent)
              => /\ subscription' = req[r].cur
                 /\ subscription' = GetAllActiveAddresses(jobs', NoJob)]_vars

\* a rollback went through and left a subscription that is not empty
C23_Witness == response = 500 /\ pushed.sent /\ pushed.list # << >>


\* the subscription lists the address of every active job
CoversActiveJobs(js, list) ==
    \A j \in JobIds : js[j].status = "active"
        /\ Trim(CategoryAddress(js[j].data_category, js[j].category_params)) # Absent
        => Trim(CategoryAddress(js[j].data_category, js[j].category_params)) \in Range(list)

\* a delete request whose edit call failed goes on to delete the row, and is
\* answered 204 when the row is deleted
DeletionProceeds ==
    \A r \in ReqIds :
       /\ (req[r].pc = "d_edit" /\ req'[r] # req[r] /\ ~pushed'.sent)
             => req'[r] = [req[r] EXCEPT !.pc = "d_row", !.edit = "failed"]
                /\ subscription' = subscription /\ jobs' = jobs
       /\ (req[r].pc = "d_row" /\ req[r].edit = "failed" /\ jobs' # jobs)
             => /\ ~Exists(jobs'[req[r].job])
                /\ Free(r)' /\ response' = 204

\* C24: a failed edit call does not prevent a deletion by the owner: the row is
\* deleted and the request succeeds, and the subscription it leaves lists the
\* address of every job that is still active
C24_FailedEditStillDeletes ==
    [][/\ DeletionProceeds
       /\ \A r \in ReqIds :
             (req[r].pc = "d_row" /\ req[r].edit = "failed" /\ response' = 204)
                => CoversActiveJobs(jobs', subscription')]_vars


\* the monitored address of a POST body is absent, not a string or empty after
\* trimming, or the body's category is not supported
Unacceptable(body) ==
    LET address == IF body.data_category = "MINT_ACTIVITY"
                   THEN body.category_params.mintAddress
                   ELSE body.category_params.programId
    IN \/ body.data_category \notin {"MINT_ACTIVITY", "PROGRAM_INTERACTIONS"}
       \/ address = Absent
       \/ ~IsString(address)
       \/ Trim(address) = Absent

\* C25: a create request with such a body ends at once with an error status, no
\* edit call is issued and no job row is persisted; no request with such a body
\* is ever on its way to the edit or the insert
C25_InvalidAddressIsRejected ==
    [][/\ \A r \in ReqIds, body \in CreateBodies, credCheck \in {"ok", "none", "error"} :
             (Unacceptable(body) /\ CreateStart(r, body, credCheck))
                => /\ Free(r)' /\ response' >= 400
                   /\ ~pushed'.sent /\ subscription' = subscription
                   /\ jobs' = jobs
       /\ \A r \in ReqIds : req'[r].kind = "create" => ~Unacceptable(req'[r].body)]_vars

\* a create request was just answered 400: its body was turned down
C25_Witness == response = 400 /\ Quiet /\ ~pushed.sent


\* ------------------------------------------------------------ claims about getUserDbPool

\* the secrets decrypt yields from the rows of db_credentials
Secrets ==
    {Decrypt(c.encrypted_password, ENCRYPTION_KEY).text :
        c \in {r \in CredentialRows : Decrypt(r.encrypted_password, ENCRYPTION_KEY).ok}}

\* C30: when decrypt fails while a pool is being made for a credential, the run
\* goes to its report with status failed, having constructed no pool and opened
\* no connection, and the cache is as it was; the report writes failed to the
\* row if it is still there; no pool
\* or connection ever carries anything but a decrypted secret, and every write to
\* a destination is made over such a connection
C30_DecryptFailureFailsItem ==
    [][/\ \A i \in QueueIds, c \in CredentialRows :
             (/\ ~Decrypt(c.encrypted_password, ENCRYPTION_KEY).ok
              /\ ~userDbPools[1][c.id].made
              /\ FetchCredentialData(i, c, NoError))
                => /\ task'[i].pc = "report" /\ task'[i].updateStatus = "failed"
                   /\ task'[i].errorMessage = MsgDecrypt
                   /\ task'[i].pool = NoPool /\ task'[i].userDbClient = NoClient
                   /\ userDbPools' = userDbPools
                   /\ dest' = dest
       /\ \A i \in 1..Len(queue) :
             (task[i].pc = "report" /\ task[i].errorMessage = MsgDecrypt
                 /\ task'[i].pc = "done" /\ queue[i].present)
                => queue'[i].status = "failed" /\ ~task[i].wrote
       /\ \A i \in QueueIds :
             /\ task'[i].pool.made => task'[i].pool.password \in Secrets
             /\ task'[i].userDbClient.open => task'[i].userDbClient.password \in Secrets
             /\ task'[i].client.open => task'[i].client.password \in Secrets
             /\ (task[i].pc = "insert" /\ dest' # dest)
                   => task[i].userDbClient.open
       /\ \A c \in CredIds :
             userDbPools'[1][c].made => userDbPools'[1][c].password \in Secrets]_vars

\* an item whose credential could not be decrypted is reported failed, and the
\* worker has cached no pool
C30_Witness ==
    \E i \in 1..Len(queue) :
       /\ Finished(i) /\ task[i].errorMessage = MsgDecrypt
       /\ queue[i].status = "failed"
       /\ \A c \in CredIds : ~userDbPools[1][c].made


\* the run on row i awaits the close of a pool whose test connection failed
ValidationFailed(i) == i <= Len(queue) /\ task[i].pc = "test_end"

\* C31: a pool in the cache passed its test connection before it was put there;
\* when the test connection of a new pool fails the pool is closed, the cache is
\* as it was and the item's processing fails: the pool is in no cache, end() was
\* called on it, and no client of it is checked out, so that the close the run
\* awaits completes and the run throws
C31_FailedValidationFailsItem ==
    /\ \A c \in CredIds : userDbPools[1][c].made =>
          /\ userDbPools[1][c].id \in QueueIds
          /\ pools[userDbPools[1][c].id].tested
          /\ pools[userDbPools[1][c].id].credential = c
    /\ \A i \in QueueIds :
          ValidationFailed(i) =>
             /\ pools[task[i].pool.id].ended /\ ~pools[task[i].pool.id].tested
             /\ \A c \in CredIds : userDbPools[1][c].id # task[i].pool.id
             /\ ~CheckedOut(task[i].pool.id)


\* C32: in one worker process at most one pool that has not been ended exists
\* for a credential, and a pool that passed its test and has not been ended is
\* the one the cache holds for its credential
C32_OneOpenPoolPerCredential ==
    /\ \A a, b \in QueueIds :
          (/\ pools[a].credential # "" /\ ~pools[a].ended /\ ~pools[b].ended
           /\ pools[a].credential = pools[b].credential)
             => a = b
    /\ \A a \in QueueIds :
          (pools[a].tested /\ ~pools[a].ended)
             => userDbPools[1][pools[a].credential].id = a

\* ------------------------------------------------ claims about the connection

\* C33: every connection taken from a pool while an item is processed is
\* released exactly once before the item's report is issued: the client of step
\* 2 is checked out only while the INSERT is awaited and has been released once
\* when the report has been issued; the client of the pool's test connection is
\* checked out only while SELECT 1 is awaited
C33_EveryConnectionIsReleased ==
    \A i \in QueueIds :
       LET client == task[i].userDbClient
       IN /\ client.open => (task[i].pc = "insert" /\ client.released = 0)
          /\ task[i].pc = "insert" => client.open
          /\ task[i].pc = "done" => client = NoClient
          /\ (task[i].pc = "report" /\ client # NoClient)
                => (~client.open /\ client.released = 1)
          /\ task[i].client.open => task[i].pc = "test_query"

\* ------------------------------------------- claims about the worker's loop

\* C34: in one worker process at most one claim call is in flight, and while the
\* process runs it is in flight exactly while isRunning is set; a call of pollQueue that runs while a
\* claim call is in flight sends no call and locks no row
C34_OneClaimCallInFlight ==
    [][/\ proc'.calls <= 1
       /\ ~proc'.exited => (proc'.isRunning <=> proc'.calls = 1)
       /\ poll'[1].pc = "locked" => proc'.calls = 1
       /\ (PollTick /\ proc.calls > 0)
             => (proc'.calls = proc.calls /\ poll' = poll /\ rowLock' = rowLock)]_vars

\* a claim call is in flight, its row locked, while an item claimed earlier is
\* still awaiting its INSERT, and no further call of pollQueue is due
C34_Witness ==
    /\ proc.calls = 1 /\ proc.isRunning /\ proc.ticks = 0
    /\ poll[1].pc = "locked"
    /\ \E i \in 1..Len(queue) : task[i].pc = "insert"
    /\ ~proc.exited

\* processQueueItem has been started on row i and has not left its try block
InProgress(i) ==
    i <= Len(queue) /\ task[i].pc \notin {"none", "report", "done"}

\* a pending row no call has locked
Claimable == Oldest(queue, rowLock, MAX_PROCESSING_ATTEMPTS) # {}

\* C35: while an item's processing is in progress in a worker that has not
\* exited, the worker's loop is not waiting for it: a call of pollQueue is due or
\* its claim call is on its way, the claim call locks a row whenever a pending
\* row is free, and so does the call of another worker
C35_ProcessingDoesNotBlockPolling ==
    (~proc.exited /\ \E i \in QueueIds : InProgress(i))
       => /\ \/ ENABLED PollTick
             \/ ENABLED PollSelect(1)
             \/ ENABLED (\E ok \in BOOLEAN : PollReturns(1, ok))
          /\ (Claimable /\ ENABLED PollSelect(1))
                => ENABLED (PollSelect(1) /\ poll'[1].pc = "locked")
          /\ Claimable
                => ENABLED (/\ ClaimSelect(2, MAX_PROCESSING_ATTEMPTS)
                            /\ poll'[2].pc = "locked")

\* an item awaits its INSERT while the item claimed after it is being
\* processed too and the next call of pollQueue is due
C35_Witness ==
    \E i, j \in 1..Len(queue) :
       /\ i # j
       /\ task[i].pc = "insert" /\ InProgress(j)
       /\ queue[i].status = "processing" /\ queue[j].status = "processing"
       /\ proc.ticks = 1 /\ ~proc.exited

\* ------------------------------------------------- claims about the report

\* processQueueItem has been started on row i
Started(i) == task[i].pc # "none"

\* the update of row i's status has been sent, with processed or failed
Issued(i) ==
    /\ task[i].pc \in {"report", "done"}
    /\ task[i].updateStatus \in {"processed", "failed"}

\* C36: when the worker does not exit and every call a run awaits returns, the
\* update of the row's status, with processed or failed, is eventually sent for
\* every item whose processing has started, and an update that succeeds takes
\* the row out of processing
C36_ReportIsEventuallyIssued ==
    /\ \A i \in QueueIds : Started(i) ~> Issued(i)
    /\ [][\A i \in 1..Len(queue) :
             (Report(i, TRUE) /\ queue[i].present)
                => queue'[i].status = task[i].updateStatus]_vars

\* ------------------------------------------------ claims about the shutdown

\* C37: once SIGTERM has been received no call of pollQueue runs and no claim
\* call is sent (a call sent before the signal may still be served), and the
\* handler calls end() on every pool of the cache
C37_NoPollingAfterSigterm ==
    [][/\ proc.signalled
             => /\ ~PollTick
                /\ proc'.calls <= proc.calls
       /\ Sigterm
             => \A c \in CredIds :
                   userDbPools[1][c].made => pools'[userDbPools[1][c].id].ended]_vars

\* end() has resolved for every pool one run of the handler closed
AllClosed(p) == \E group \in p.awaited : group \subseteq p.closed

\* C38: after SIGTERM the process eventually exits; it exits with code 0 as
\* soon as end() has resolved for every pool the handler closed, and with code 1
\* when its timer fires first or an end() is rejected
C38_ExitsAfterSigterm ==
    /\ proc.signalled ~> proc.exited
    /\ [][/\ (proc'.signalled /\ ~proc'.exited) => ~AllClosed(proc')
          /\ (~proc.exited /\ proc'.exited)
                => /\ proc'.signalled
                   /\ proc'.code = 0 <=> AllClosed(proc')
                   /\ GraceExpires => proc'.code = 1]_vars

\* the process has exited on the timer while a pool it was closing, with a
\* client still checked out, had not closed
C38_Witness ==
    /\ proc.exited /\ proc.code = 1
    /\ \E p \in proc.closing \ proc.closed :
          \E i \in 1..Len(queue) :
             task[i].userDbClient.open /\ task[i].userDbClient.pool = p

\* ------------------------------------- claims across reconciler and pipeline

\* the address transformMintActivity looks for among an event's accounts
\* (transformProgramInteraction reads none)
MonitoredMint(job) == job.category_params.mintAddress

\* C39: when a create request persists its job, the address the receiver
\* derives from the stored row to match events, and for a mint job the one the
\* worker's transform looks for, is the address the request put in the
\* subscription
C39_OneAddressDerivation ==
    [][\A j \in JobIds, r \in ReqIds :
          (/\ Persists(j)
           /\ req[r].kind = "create" /\ req[r].pc = "c_insert" /\ req'[r] # req[r])
             => /\ req[r].addr \in Range(subscription)
                /\ JobMonitoredAddress(jobs'[j]) = req[r].addr
                /\ jobs'[j].data_category = "MINT_ACTIVITY"
                      => MonitoredMint(jobs'[j]) = req[r].addr]_vars

\* C40: a delete request answered 500 because the deletion of the row failed
\* leaves the job's row as it was, and the subscription still lists the address
\* of the job, which is still active
C40_FailedDeleteChangesNothing ==
    [][\A r \in ReqIds :
          (req[r].kind = "delete" /\ req[r].pc = "d_row" /\ response' = 500)
             => /\ jobs' = jobs /\ Exists(jobs'[req[r].job])
                /\ jobs'[req[r].job].status = "active"
                      => req[r].addr \in Range(subscription')]_vars

====
